---- MODULE Spec2Model ----
(***************************************************************************)
(* Model of react-img-cutout's hit-testing engine: the cutout registry of  *)
(* <CutoutViewer>, the per-shape hit-test strategies, the asynchronous     *)
(* strategy build of useCutoutHitTest and its pointer state machine.       *)
(*                                                                         *)
(* Normalized coordinates (fractions 0..1 of the container) are kept as    *)
(* integers n standing for n / Unit, where Unit is the container's width   *)
(* in pixels; every image dimension used divides Unit, so the bounds the   *)
(* code computes with divisions are exact integers in this scale.  Where   *)
(* the rounding of the arithmetic matters (circles, images whose size does *)
(* not divide Unit, the positions of useDrawPolygon, the contour that      *)
(* traceContour extracts) numbers are IEEE-754 doubles, see the sections   *)
(* "JavaScript numbers".                                                   *)
(***************************************************************************)
EXTENDS Integers, Sequences, FiniteSets, Bags, TLC

VARIABLES
  cutoutMap,      \* CutoutViewer state: Map<id, CutoutDefinition> in insertion order, as of the last render
  queuedMap,      \* what the setCutoutMap() updaters queued since then make of it: the next render's cutoutMap
  enabled,        \* the viewer's `enabled` prop
  hoveredId,      \* useState hoveredId
  selectedId,     \* useState selectedId
  timerPending,   \* hoverClearTimerRef.current !== null
  strategiesRef,  \* strategiesRef.current
  boundsMap,      \* useState boundsMap as of the last render (before the enabled mask)
  queuedBounds,   \* the argument of the last setBoundsMap() not yet rendered, if any
  effectPending,  \* the last commit changed the build effect's dependencies; it has yet to run
  builds,         \* the buildStrategies() calls suspended in `await strategy.prepare()`: a bag
  lastEvent,      \* history: the handler (and branch) that ran last
  fnCall,         \* a call of one of the pure geometry functions: its arguments
  fnResult,       \* what that call returned
  drawPoints,     \* useDrawPolygon: useState points
  previewPoint,   \* useDrawPolygon: useState previewPoint
  completions,    \* the onComplete calls of the handler that ran last: their arguments
  gesture,        \* history: how far a double-click (click, click, dblclick) has got
  now,            \* the clock the browser's timers run on, in ticks
  timers,         \* the timeouts window.setTimeout has pending: id and due time
  timerRef,       \* hoverClearTimerRef.current (NoTimer for null)
  noHit,          \* history: the current run of no-hit events and how it ended
  mounted,        \* the component that uses the hook is mounted
  disposeCalls    \* history: the strategies the cleanup of the last step ran `s.dispose?.()` on

viewerVars == <<cutoutMap, queuedMap, enabled, hoveredId, selectedId, timerPending,
                strategiesRef, boundsMap, queuedBounds, effectPending, builds, lastEvent>>
fnVars == <<fnCall, fnResult>>
drawVars == <<drawPoints, previewPoint, completions, gesture>>
timerVars == <<now, timers, timerRef, noHit>>
teardownVars == <<mounted, disposeCalls>>
vars == <<viewerVars, fnVars, drawVars, timerVars, teardownVars>>

(***************************************************************************)
(* Values                                                                  *)
(***************************************************************************)
Null == "null"               \* JavaScript null (ids)
Undefined == "undefined"     \* JavaScript undefined (an absent label)

\* container.getBoundingClientRect(): a 4x4 pixel container away from the origin
Rect == [left |-> 10, top |-> 20, width |-> 4, height |-> 4]
Unit == Rect.width

\* builds whose prepare() is outstanding when a render schedules the effect
\* again, at most
MaxStale == 2

\* default of the alphaThreshold parameter
alphaThreshold == 30

Min(a, b) == IF a < b THEN a ELSE b
Max(a, b) == IF a > b THEN a ELSE b
Abs(n) == IF n < 0 THEN -n ELSE n
Sign(n) == IF n > 0 THEN 1 ELSE IF n < 0 THEN -1 ELSE 0

clampThreshold == Min(255, Max(0, alphaThreshold))

(***************************************************************************)
(* JavaScript numbers in Unit scale.  Infinity and NaN are integers out of *)
(* the range of every coordinate; every comparison with NaN is false.      *)
(***************************************************************************)
Infinity == 1000 * Unit
NaN == -(2 * Infinity)

\* a < b
NumLess(a, b) == a # NaN /\ b # NaN /\ a < b

\* a - b
NumSub(a, b) ==
  IF a = NaN \/ b = NaN THEN NaN
  ELSE IF a = Infinity THEN (IF b = Infinity THEN NaN ELSE Infinity)
  ELSE IF a = -Infinity THEN (IF b = -Infinity THEN NaN ELSE -Infinity)
  ELSE IF b = Infinity THEN -Infinity
  ELSE IF b = -Infinity THEN Infinity
  ELSE a - b

\* a + b
NumAdd(a, b) ==
  IF a = NaN \/ b = NaN THEN NaN
  ELSE IF a = Infinity THEN (IF b = -Infinity THEN NaN ELSE Infinity)
  ELSE IF a = -Infinity THEN (IF b = Infinity THEN NaN ELSE -Infinity)
  ELSE IF b = Infinity \/ b = -Infinity THEN b
  ELSE a + b

(***************************************************************************)
(* JavaScript numbers as IEEE-754 doubles.  Every +, -, * and / rounds its *)
(* exact result to the nearest number with a 53-bit significand, ties to   *)
(* the even one.  With eps = 2^-53, a number is the record [n, d, u, v, k] *)
(* standing for the rational                                               *)
(*                                                                         *)
(*                eps^k * (n / d + (u / v) * eps)                          *)
(*                                                                         *)
(* with n / d and u / v in lowest terms, and n = 0 only for zero.  n / d   *)
(* is the value up to the rounding errors collected so far, (u / v) * eps  *)
(* is exactly those errors, and k > 0 marks what is left when two numbers  *)
(* that differ by rounding errors only are subtracted.  The operators      *)
(* compute the exact result of the code's operation and round it as the    *)
(* hardware does; they are exact as long as n, d, u and v stay small       *)
(* against 2^53, which they do on the inputs of this model.  Overflow,     *)
(* underflow, infinities and NaN do not occur on them.                     *)
(***************************************************************************)
Zero == [n |-> 0, d |-> 1, u |-> 0, v |-> 1, k |-> 0]

RECURSIVE Gcd(_, _)
Gcd(a, b) == IF b = 0 THEN a ELSE Gcd(b, a % b)

\* a / g and b / g for a common divisor g of a and b
Reduce(a, b, g) == <<a \div g, b \div g>>

\* the fraction a / b as <<numerator, denominator>> in lowest terms
Frac(a, b) == Reduce(a, b, (IF b < 0 THEN -1 ELSE 1) * Gcd(Abs(a), Abs(b)))

RAdd(p, q) == Frac(p[1] * q[2] + q[1] * p[2], p[2] * q[2])
RNeg(p) == <<-p[1], p[2]>>
\* the product of two fractions whose cross factors are cancelled already
RMulReduced(a, b) == Frac(a[1] * b[1], a[2] * b[2])
RMul(p, q) == RMulReduced(Frac(p[1], q[2]), Frac(q[1], p[2]))
RInv(p) == Frac(p[2], p[1])
\* p * 2^j
RScale2(p, j) == RMul(p, IF j >= 0 THEN <<2 ^ j, 1>> ELSE <<1, 2 ^ (-j)>>)

\* 2^j modulo m
RECURSIVE PowMod(_, _)
PowMod(j, m) == IF j = 0 THEN 1 % m ELSE (2 * PowMod(j - 1, m)) % m

\* the e with 2^e <= n / d < 2^(e + 1), for n, d > 0
RECURSIVE Exponent(_, _)
Exponent(n, d) ==
  IF n >= 2 * d THEN Exponent(n, 2 * d) + 1
  ELSE IF n < d THEN Exponent(2 * n, d) - 1
  ELSE 0

\* the fraction n / d in lowest terms is 2^e
IsPowerOfTwo(n, d, e) ==
  IF e >= 0 THEN d = 1 /\ n = 2 ^ e ELSE n = 1 /\ d = 2 ^ (-e)

\* the exponent of a number just below (`below`) or at or above n / d, whose
\* exponent is e0: the one binade down when n / d is a power of two
Binade(n, d, below, e0) == IF below /\ IsPowerOfTwo(n, d, e0) THEN e0 - 1 ELSE e0

\* the record of the double eps^k * (A + U2 * eps)
Double(A, U2, k) == [n |-> A[1], d |-> A[2], u |-> U2[1], v |-> U2[2], k |-> k]

\* the whole number nearest to q + T, less q, for a whole q of parity `odd`
\* and a fraction T with whole part f and numerator rem of the rest; T is
\* exact up to terms of the sign `sticky`, and a tie goes to the even number
NearestWhole(T, f, rem, odd, sticky) ==
  IF 2 * rem < T[2] THEN f
  ELSE IF 2 * rem > T[2] THEN f + 1
  ELSE IF sticky > 0 THEN f + 1
  ELSE IF sticky < 0 THEN f
  ELSE IF odd THEN f + 1 ELSE f

\* the double m * 2^(e - 52) above the whole multiples in A, as A plus the
\* rounding error (m - T) * 2^(e + 1) * eps on top of U
RoundTo(A, U, k, e, T, m) ==
  Double(A, RAdd(U, RScale2(RAdd(<<m, 1>>, RNeg(T)), e + 1)), k)

RoundFraction(A, U, sticky, k, e, T, f, odd) ==
  RoundTo(A, U, k, e, T, NearestWhole(T, f, T[1] - f * T[2], odd, sticky))

\* R2 is A / 2^(e - 52) modulo 2 as a multiple of 1 / d
RoundResidue(A, U, sticky, k, e, T, R2) ==
  RoundFraction(A, U, sticky, k, e, T, T[1] \div T[2],
                ((R2 \div A[2]) + (T[1] \div T[2])) % 2 = 1)

RoundAt(A, U, sticky, k, e, R2) ==
  RoundResidue(A, U, sticky, k, e,
               RAdd(<<R2 % A[2], A[2]>>, RScale2(U, -1 - e)), R2)

\* The double nearest to X = A + U * eps + (terms of order eps^2 of the sign
\* `sticky`), for A > 0, e being the exponent of X.  The doubles around X
\* are the multiples of 2^(e - 52); X / 2^(e - 52) is an integer (whose
\* parity decides a tie) plus the fraction T.
RoundInBinade(A, U, sticky, k, e) ==
  RoundAt(A, U, sticky, k, e,
          ((A[1] % (2 * A[2])) * PowMod(52 - e, 2 * A[2])) % (2 * A[2]))

FRoundPositive(A, U, sticky, k) ==
  RoundInBinade(A, U, sticky, k,
                Binade(A[1], A[2], U[1] < 0 \/ (U[1] = 0 /\ sticky < 0),
                       Exponent(A[1], A[2])))

\* s * x for a sign s
Signed(s, x) == [x EXCEPT !.n = s * x.n, !.u = s * x.u]
FNeg(x) == Signed(-1, x)

\* the double nearest to eps^k * (A + U * eps + ...): rounding is symmetric,
\* and a difference that is all rounding error is a double as it stands
FRound(A, U, sticky, k) ==
  IF A[1] = 0
  THEN IF U[1] = 0 THEN Zero
       ELSE [n |-> U[1], d |-> U[2], u |-> 0, v |-> 1, k |-> k + 1]
  ELSE Signed(Sign(A[1]),
              FRoundPositive(<<Abs(A[1]), A[2]>>, <<Sign(A[1]) * U[1], U[2]>>,
                             Sign(A[1]) * sticky, k))

\* the whole number i
FromInt(i) == [n |-> i, d |-> 1, u |-> 0, v |-> 1, k |-> 0]
One == FromInt(1)

\* the double nearest to n / d: what the literal or the quotient n / d of two
\* whole numbers evaluates to
FNearest(n, d) == FRound(Frac(n, d), <<0, 1>>, 0, 0)

\* a + b for nonzero a and b with a.k <= b.k: b counts in full, as a
\* rounding error of a, or by its sign only
FAddOrdered(a, b) ==
  FRound(IF a.k = b.k THEN RAdd(<<a.n, a.d>>, <<b.n, b.d>>) ELSE <<a.n, a.d>>,
         IF a.k = b.k THEN RAdd(<<a.u, a.v>>, <<b.u, b.v>>)
         ELSE IF b.k = a.k + 1 THEN RAdd(<<a.u, a.v>>, <<b.n, b.d>>)
         ELSE <<a.u, a.v>>,
         IF a.k = b.k THEN 0 ELSE IF b.k = a.k + 1 THEN Sign(b.u) ELSE Sign(b.n),
         a.k)

\* x + y
FAdd(x, y) ==
  IF x.n = 0 THEN y
  ELSE IF y.n = 0 THEN x
  ELSE FAddOrdered(IF x.k <= y.k THEN x ELSE y, IF x.k <= y.k THEN y ELSE x)

\* x - y
FSub(x, y) == FAdd(x, FNeg(y))

\* x * y
FMul(x, y) ==
  IF x.n = 0 \/ y.n = 0 THEN Zero
  ELSE FRound(RMul(<<x.n, x.d>>, <<y.n, y.d>>),
              RAdd(RMul(<<x.n, x.d>>, <<y.u, y.v>>), RMul(<<y.n, y.d>>, <<x.u, x.v>>)),
              Sign(x.u) * Sign(y.u), x.k + y.k)

\* the quotient q with its first-order error `second` and what is left of
\* the error of y beyond it
FDivRound(x, y, q, second) ==
  FRound(q, second, -(Sign(y.u) * Sign(y.n) * Sign(second[1])), x.k - y.k)

FDivQuotient(x, y, invY, q) ==
  FDivRound(x, y, q,
            RAdd(RMul(<<x.u, x.v>>, invY), RNeg(RMul(q, RMul(<<y.u, y.v>>, invY)))))

FDivBy(x, y, invY) == FDivQuotient(x, y, invY, RMul(<<x.n, x.d>>, invY))

\* x / y for y # 0
FDiv(x, y) == IF x.n = 0 THEN Zero ELSE FDivBy(x, y, RInv(<<y.n, y.d>>))

\* x < y
FLess(x, y) ==
  IF x.n = 0 THEN y.n > 0
  ELSE IF y.n = 0 THEN x.n < 0
  ELSE IF Sign(x.n) # Sign(y.n) THEN x.n < 0
  ELSE IF x.k # y.k THEN (x.k > y.k) = (x.n > 0)
  ELSE IF x.n * y.d # y.n * x.d THEN x.n * y.d < y.n * x.d
  ELSE x.u * y.v < y.u * x.v

\* x <= y
FLeq(x, y) == ~FLess(y, x)

\* Math.floor(x) for x below 2^31 in magnitude
FFloor(x) ==
  IF x.n = 0 THEN 0
  ELSE IF x.k > 0 THEN (IF x.n > 0 THEN 0 ELSE -1)
  ELSE LET f == x.n \div x.d
       IN IF f * x.d = x.n /\ x.u < 0 THEN f - 1 ELSE f

\* x with the rounding errors U2
WithError(x, U2) == [x EXCEPT !.u = U2[1], !.v = U2[2]]

\* the double next to x # 0 on the side of minus infinity
FBelow(x) ==
  WithError(x, RAdd(<<x.u, x.v>>,
                    RNeg(RScale2(<<1, 1>>,
                                 Binade(Abs(x.n), x.d,
                                        IF x.n > 0 THEN x.u <= 0 ELSE x.u > 0,
                                        Exponent(Abs(x.n), x.d)) + 1))))

\* the double next to x # 0 on the side of plus infinity
FAbove(x) == FNeg(FBelow(FNeg(x)))

\* String(x) for an x with a short binary expansion, which the shortest
\* decimal that reads back as x spells out digit by digit: 0.5, 0.1875
RECURSIVE DecimalDigits(_, _)
DecimalDigits(r, d) ==
  IF r = 0 THEN "" ELSE ToString((10 * r) \div d) \o DecimalDigits((10 * r) % d, d)
FToString(x) ==
  LET a == Abs(x.n)
  IN (IF x.n < 0 THEN "-" ELSE "") \o ToString(a \div x.d)
       \o (IF a % x.d = 0 THEN "" ELSE "." \o DecimalDigits(a % x.d, x.d))

(***************************************************************************)
(* JavaScript numbers as IEEE-754 doubles, significand and exponent.       *)
(* Math.sqrt has an irrational result on most arguments, so the doubles of *)
(* the drawing hook and of the contour tracer carry their significand: a   *)
(* finite number is the record [c |-> "finite", s, m, e] standing for      *)
(*                                                                         *)
(*                          s * m * 2^e                                    *)
(*                                                                         *)
(* with the sign s in {1, -1}, the exponent e and the natural number m,    *)
(* which is 0 for zero and has exactly 53 bits otherwise.  A natural       *)
(* number is the sequence of its digits to the base Limb, the lowest       *)
(* first and the highest not 0, so that products of digits stay below      *)
(* 2^31.  +, -, *, / and Math.sqrt compute the exact result (the quotient  *)
(* and the root to two more bits than are kept, and whether anything is    *)
(* left beyond them) and round it to 53 bits, to the nearest, a tie to the *)
(* even significand.  NaN and the infinities are records of their own.     *)
(* Left out: the sign of zero, which no comparison of the modelled code    *)
(* sees, and overflow and underflow, which need exponents the inputs of    *)
(* this model are far from.                                                *)
(***************************************************************************)
\* the base of the digits
Limb == 2 ^ 14

\* the number of bits of the integer i >= 0
RECURSIVE IntBits(_)
IntBits(i) == IF i = 0 THEN 0 ELSE 1 + IntBits(i \div 2)

\* the bits of a digit
LimbBits == IntBits(Limb) - 1

\* digit i of a, 0 above the highest
Digit(a, i) == IF i <= Len(a) THEN a[i] ELSE 0

\* a without zero digits at its top
RECURSIVE NatTrim(_)
NatTrim(a) ==
  IF a = <<>> \/ a[Len(a)] # 0 THEN a ELSE NatTrim(SubSeq(a, 1, Len(a) - 1))

\* the digits of c + a[i] + a[i + 1] * Limb + ..., the a[j] being integers
\* of any size and sign
RECURSIVE NatCarry(_, _, _)
NatCarry(a, i, c) ==
  IF i > Len(a)
  THEN (IF c = 0 THEN <<>> ELSE <<c % Limb>> \o NatCarry(a, i, c \div Limb))
  ELSE <<(a[i] + c) % Limb>> \o NatCarry(a, i + 1, (a[i] + c) \div Limb)

\* the natural number i >= 0
NatFromInt(i) == NatCarry(<<>>, 1, i)

\* a from digit i up, for an a below 2^31
RECURSIVE NatToInt(_, _)
NatToInt(a, i) == IF i > Len(a) THEN 0 ELSE a[i] + Limb * NatToInt(a, i + 1)

NatAdd(a, b) ==
  NatCarry([i \in 1..Max(Len(a), Len(b)) |-> Digit(a, i) + Digit(b, i)], 1, 0)

\* a - b for a >= b
NatSub(a, b) == NatTrim(NatCarry([i \in 1..Len(a) |-> a[i] - Digit(b, i)], 1, 0))

\* -1, 0 or 1 as a is below, equal to or above b, by the digits from i down
RECURSIVE NatCmpFrom(_, _, _)
NatCmpFrom(a, b, i) ==
  IF i = 0 THEN 0
  ELSE IF a[i] # b[i] THEN (IF a[i] < b[i] THEN -1 ELSE 1)
  ELSE NatCmpFrom(a, b, i - 1)

NatCmp(a, b) ==
  IF Len(a) # Len(b) THEN (IF Len(a) < Len(b) THEN -1 ELSE 1)
  ELSE NatCmpFrom(a, b, Len(a))

\* a * k for a digit k or k = Limb
NatMulSmall(a, k) ==
  IF k = 0 THEN <<>> ELSE NatCarry([i \in 1..Len(a) |-> a[i] * k], 1, 0)

\* the sum of a[i] * b[k + 1 - i] for i up to hi
RECURSIVE NatColumn(_, _, _, _, _)
NatColumn(a, b, k, i, hi) ==
  IF i > hi THEN 0 ELSE a[i] * b[k + 1 - i] + NatColumn(a, b, k, i + 1, hi)

\* a * b, one of them of at most 8 digits
NatMul(a, b) ==
  IF a = <<>> \/ b = <<>> THEN <<>>
  ELSE NatCarry([k \in 1..(Len(a) + Len(b) - 1) |->
                   NatColumn(a, b, k, Max(1, k + 1 - Len(b)), Min(k, Len(a)))], 1, 0)

\* a * 2^n
NatShl(a, n) ==
  IF a = <<>> THEN a
  ELSE [i \in 1..(n \div LimbBits) |-> 0] \o NatMulSmall(a, 2 ^ (n % LimbBits))

\* a \div 2^r for r < LimbBits
NatShrBits(a, r) ==
  NatTrim([i \in 1..Len(a) |->
             (a[i] \div 2 ^ r) + (Digit(a, i + 1) % 2 ^ r) * 2 ^ (LimbBits - r)])

\* a \div 2^n
NatShr(a, n) ==
  IF n \div LimbBits >= Len(a) THEN <<>>
  ELSE NatShrBits(SubSeq(a, n \div LimbBits + 1, Len(a)), n % LimbBits)

\* the number of bits of a
NatBits(a) == IF a = <<>> THEN 0 ELSE LimbBits * (Len(a) - 1) + IntBits(a[Len(a)])

\* bit j of a, bit 0 being the lowest
NatBit(a, j) == (Digit(a, j \div LimbBits + 1) \div 2 ^ (j % LimbBits)) % 2

\* the n lowest bits of a are 0
NatLowZero(a, n) ==
  /\ \A i \in 1..(n \div LimbBits) : Digit(a, i) = 0
  /\ Digit(a, n \div LimbBits + 1) % 2 ^ (n % LimbBits) = 0

\* Long division by a b whose highest digit is at least Limb / 2.  One
\* step divides a remainder r < b * Limb by b: the trial digit, the two
\* highest digits of r by the highest of b, is at most 2 too large and is
\* lowered until q * b = p is no more than r.
RECURSIVE NatDivFix(_, _, _, _)
NatDivFix(b, r, q, p) ==
  IF NatCmp(p, r) > 0 THEN NatDivFix(b, r, q - 1, NatSub(p, b))
  ELSE [q |-> q, r |-> NatSub(r, p)]

NatDivTrial(b, r) ==
  Min(Limb - 1, (Digit(r, Len(b) + 1) * Limb + Digit(r, Len(b))) \div b[Len(b)])

NatDivDigit(b, r, q) == NatDivFix(b, r, q, NatMulSmall(b, q))

NatDivStep(b, r) == NatDivDigit(b, r, NatDivTrial(b, r))

\* the digits of a from i down are brought down one by one; q holds the
\* digits of the quotient found so far, without zeros at its top
RECURSIVE NatDivLoop(_, _, _, _, _)
NatDivNext(a, b, i, q, step) ==
  IF step.q = 0 /\ q = <<>> THEN NatDivLoop(a, b, i - 1, q, step.r)
  ELSE NatDivLoop(a, b, i - 1, <<step.q>> \o q, step.r)
NatDivLoop(a, b, i, q, r) ==
  IF i = 0 THEN [q |-> q, r |-> r]
  ELSE NatDivNext(a, b, i, q, NatDivStep(b, NatTrim(<<a[i]>> \o r)))

NatDivResult(res, sh) == [q |-> res.q, r |-> NatShr(res.r, sh)]
\* the digits above the Len(b) - 1 highest of a give no digit of the
\* quotient: the division starts with those as remainder
NatDivShifted(a, b, sh) ==
  IF Len(a) < Len(b) THEN [q |-> <<>>, r |-> NatShr(a, sh)]
  ELSE NatDivResult(NatDivLoop(a, b, Len(a) - Len(b) + 1, <<>>,
                               SubSeq(a, Len(a) - Len(b) + 2, Len(a))), sh)
NatDivBy(a, b, sh) == NatDivShifted(NatShl(a, sh), NatShl(b, sh), sh)

\* the quotient q = a \div b and the remainder r = a % b, for b # 0
NatDivMod(a, b) == NatDivBy(a, b, LimbBits - IntBits(b[Len(b)]))

\* Newton's iteration x -> (x + a \div x) \div 2 from an x >= sqrt(a) on
\* down, as long as it goes down; y is the successor of x
NatSqrtStep(a, x) == NatShr(NatAdd(x, NatDivMod(a, x).q), 1)
RECURSIVE NatSqrtFrom(_, _, _)
NatSqrtFrom(a, x, y) ==
  IF NatCmp(y, x) >= 0 THEN x ELSE NatSqrtFrom(a, y, NatSqrtStep(a, y))
NatSqrtStart(a, x) == NatSqrtFrom(a, x, NatSqrtStep(a, x))

\* the largest r with r * r <= a
NatSqrt(a) ==
  IF a = <<>> THEN a ELSE NatSqrtStart(a, NatShl(<<1>>, (NatBits(a) + 1) \div 2))

\* the bits of a significand: 52 that are stored and the leading 1
SignificandBits == 52 + 1

Finite(s, m, e) == [c |-> "finite", s |-> s, m |-> m, e |-> e]
DblZero == Finite(1, <<>>, 0)
DblNaN == [c |-> "nan", s |-> 1, m |-> <<>>, e |-> 0]
DblInfinity(s) == [c |-> "inf", s |-> s, m |-> <<>>, e |-> 0]

IsZero(x) == x.c = "finite" /\ x.m = <<>>

\* a significand that was rounded up to 2^53 is 2^52 with the next exponent
DblCarry(s, q, e) ==
  IF NatBits(q) > SignificandBits THEN Finite(s, NatShr(q, 1), e + 1)
  ELSE Finite(s, q, e)

\* the sh lowest bits of m are rounded away: up when they are more than
\* half of the last bit kept, or half of it and something is left beyond
\* them (sticky) or the last bit kept is 1
DblRoundOff(s, m, e, sticky, sh) ==
  DblCarry(s,
           IF NatBit(m, sh - 1) = 1
                /\ (sticky \/ ~NatLowZero(m, sh - 1) \/ NatBit(m, sh) = 1)
           THEN NatAdd(NatShr(m, sh), <<1>>) ELSE NatShr(m, sh),
           e + sh)

DblRoundBits(s, m, e, sticky, bits) ==
  IF bits <= SignificandBits
  THEN Finite(s, NatShl(m, SignificandBits - bits), e - (SignificandBits - bits))
  ELSE DblRoundOff(s, m, e, sticky, bits - SignificandBits)

\* the double nearest to s * m * 2^e, or to a little more than that in
\* magnitude if sticky, for m # 0
DblRound(s, m, e, sticky) == DblRoundBits(s, m, e, sticky, NatBits(m))

\* the double nearest to the exact number x
DblNearest(x) == IF x.m = <<>> THEN DblZero ELSE DblRound(x.s, x.m, x.e, FALSE)

\* the whole number i as a double
DblFromInt(i) ==
  DblNearest(Finite(IF i < 0 THEN -1 ELSE 1, NatFromInt(IF i < 0 THEN -i ELSE i), 0))

DblOne == DblFromInt(1)

\* -x
DblNeg(x) == IF IsZero(x) \/ x.c = "nan" THEN x ELSE [x EXCEPT !.s = -x.s]

\* Math.abs(x)
DblAbs(x) == [x EXCEPT !.s = 1]

\* Exact arithmetic on the finite numbers s * m * 2^e, m of any size.
\* The sum of a * 2^e of sign sa and b * 2^e of sign sb, cmp comparing a, b:
ExactAddAligned(sa, a, sb, b, e, cmp) ==
  IF sa = sb THEN Finite(sa, NatAdd(a, b), e)
  ELSE IF cmp = 0 THEN DblZero
  ELSE IF cmp > 0 THEN Finite(sa, NatSub(a, b), e)
  ELSE Finite(sb, NatSub(b, a), e)

ExactAddShifted(sa, a, sb, b, e) ==
  ExactAddAligned(sa, a, sb, b, e, NatCmp(a, b))

ExactAddAt(x, y, e) ==
  ExactAddShifted(x.s, NatShl(x.m, x.e - e), y.s, NatShl(y.m, y.e - e), e)

\* x + y, x - y and x * y without rounding
ExactAdd(x, y) ==
  IF x.m = <<>> THEN y ELSE IF y.m = <<>> THEN x ELSE ExactAddAt(x, y, Min(x.e, y.e))
ExactSub(x, y) == ExactAdd(x, DblNeg(y))
ExactMul(x, y) ==
  IF x.m = <<>> \/ y.m = <<>> THEN DblZero
  ELSE Finite(x.s * y.s, NatMul(x.m, y.m), x.e + y.e)

\* x < y for exact numbers
ExactNegative(x) == x.m # <<>> /\ x.s < 0
ExactLess(x, y) == ExactNegative(ExactSub(x, y))

\* x + y
DblAdd(x, y) ==
  IF x.c = "nan" \/ y.c = "nan" THEN DblNaN
  ELSE IF x.c = "inf" THEN (IF y.c = "inf" /\ y.s # x.s THEN DblNaN ELSE x)
  ELSE IF y.c = "inf" THEN y
  ELSE DblNearest(ExactAdd(x, y))

\* x - y
DblSub(x, y) == DblAdd(x, DblNeg(y))

\* x * y
DblMul(x, y) ==
  IF x.c = "nan" \/ y.c = "nan" THEN DblNaN
  ELSE IF x.c = "inf" \/ y.c = "inf"
  THEN (IF IsZero(x) \/ IsZero(y) THEN DblNaN ELSE DblInfinity(x.s * y.s))
  ELSE DblNearest(ExactMul(x, y))

\* the quotient of the significands, 56 or 57 bits of it, rounded
DblQuotient(s, qr, e) == DblRound(s, qr.q, e, qr.r # <<>>)

\* x / y
DblDiv(x, y) ==
  IF x.c = "nan" \/ y.c = "nan" THEN DblNaN
  ELSE IF x.c = "inf" THEN (IF y.c = "inf" THEN DblNaN ELSE DblInfinity(x.s * y.s))
  ELSE IF y.c = "inf" THEN DblZero
  ELSE IF y.m = <<>> THEN (IF x.m = <<>> THEN DblNaN ELSE DblInfinity(x.s * y.s))
  ELSE IF x.m = <<>> THEN DblZero
  ELSE DblQuotient(x.s * y.s, NatDivMod(NatShl(x.m, 4 * LimbBits), y.m),
                   x.e - y.e - 4 * LimbBits)

\* the root r of a, 55 bits of it, rounded
DblRoot(a, r, e) == DblRound(1, r, e, NatCmp(NatMul(r, r), a) # 0)
DblSqrtOf(a, e) == DblRoot(a, NatSqrt(a), e)

\* Math.sqrt(x): the root of m * 2^e with e made even and m 56 bits longer
DblSqrt(x) ==
  IF x.c = "nan" THEN DblNaN
  ELSE IF x.c = "inf" THEN (IF x.s > 0 THEN x ELSE DblNaN)
  ELSE IF x.m = <<>> THEN DblZero
  ELSE IF x.s < 0 THEN DblNaN
  ELSE DblSqrtOf(NatShl(x.m, 4 * LimbBits + (x.e % 2)),
                 (x.e - (x.e % 2)) \div 2 - 2 * LimbBits)

\* x < y
DblLess(x, y) ==
  IF x.c = "nan" \/ y.c = "nan" THEN FALSE
  ELSE IF x.c = "inf" THEN x.s < 0 /\ ~(y.c = "inf" /\ y.s < 0)
  ELSE IF y.c = "inf" THEN y.s > 0
  ELSE IF x.m = <<>> THEN y.m # <<>> /\ y.s > 0
  ELSE IF y.m = <<>> THEN x.s < 0
  ELSE IF x.s # y.s THEN x.s < 0
  ELSE IF x.e # y.e THEN (x.e < y.e) = (x.s > 0)
  ELSE NatCmp(x.m, y.m) = -x.s

\* x > y
DblGreater(x, y) == DblLess(y, x)

\* Math.min(x, y) and Math.max(x, y)
DblMin(x, y) ==
  IF x.c = "nan" \/ y.c = "nan" THEN DblNaN ELSE IF DblLess(y, x) THEN y ELSE x
DblMax(x, y) ==
  IF x.c = "nan" \/ y.c = "nan" THEN DblNaN ELSE IF DblLess(x, y) THEN y ELSE x

\* Math.floor(x) as an integer, for a finite x below 2^31 in magnitude
DblFloor(x) ==
  IF x.m = <<>> THEN 0
  ELSE IF x.e >= 0 THEN x.s * NatToInt(NatShl(x.m, x.e), 1)
  ELSE IF x.s > 0 THEN NatToInt(NatShr(x.m, -x.e), 1)
  ELSE -NatToInt(NatShr(x.m, -x.e), 1) - (IF NatLowZero(x.m, -x.e) THEN 0 ELSE 1)

\* Math.round(x) as an integer, for a finite x below 2^31 in magnitude:
\* the floor of the exact x + 1/2
DblRoundInt(x) == DblFloor(ExactAdd(x, Finite(1, <<1>>, -1)))

FullBounds == [x |-> 0, y |-> 0, w |-> Unit, h |-> Unit]
NoBounds == [x |-> 0, y |-> 0, w |-> 0, h |-> 0]
NoCircle == [cx |-> Zero, cy |-> Zero, radius |-> Zero]

(***************************************************************************)
(* The platform's image decoder, by source URL: natural size, whether the  *)
(* canvas can be read (false: getImageData throws, a tainted canvas) and   *)
(* the alpha channel of the decoded pixels, row-major.                     *)
(***************************************************************************)
Pixels(alphas) ==
  [k \in 1..(4 * Len(alphas)) |-> IF k % 4 = 0 THEN alphas[k \div 4] ELSE 200]

ImageSource(src) ==
  CASE src = "ok.png"    -> [naturalWidth |-> 2, naturalHeight |-> 2, context |-> TRUE,
                             readable |-> TRUE, data |-> Pixels(<<255, 0, 30, 0>>)]
    [] src = "cors.png"  -> [naturalWidth |-> 2, naturalHeight |-> 2, context |-> TRUE,
                             readable |-> FALSE, data |-> Pixels(<<255, 255, 255, 255>>)]
    [] src = "noctx.png" -> [naturalWidth |-> 2, naturalHeight |-> 2, context |-> FALSE,
                             readable |-> TRUE, data |-> Pixels(<<255, 255, 255, 255>>)]
    [] src = "flat.png"  -> [naturalWidth |-> 2, naturalHeight |-> 0, context |-> TRUE,
                             readable |-> TRUE, data |-> <<>>]
    [] OTHER             -> [naturalWidth |-> 0, naturalHeight |-> 0, context |-> TRUE,
                             readable |-> FALSE, data |-> <<>>]

(***************************************************************************)
(* Cutout definitions.  One record shape for all variants; the fields a    *)
(* variant does not have keep a fixed filler value.                        *)
(***************************************************************************)
ImageDef(id, src, label) ==
  [id |-> id, type |-> "image", src |-> src, bounds |-> NoBounds,
   points |-> <<>>, circle |-> NoCircle, label |-> label]
BBoxDef(id, b, label) ==
  [id |-> id, type |-> "bbox", src |-> "", bounds |-> b,
   points |-> <<>>, circle |-> NoCircle, label |-> label]
PolygonDef(id, pts, label) ==
  [id |-> id, type |-> "polygon", src |-> "", bounds |-> NoBounds,
   points |-> pts, circle |-> NoCircle, label |-> label]
CircleDef(id, c, label) ==
  [id |-> id, type |-> "circle", src |-> "", bounds |-> NoBounds,
   points |-> <<>>, circle |-> c, label |-> label]

\* the image cutouts the children of the viewer register: an image that
\* loads and, under one id, one whose pixels cannot be read and one that
\* does not decode
Pool ==
  { ImageDef("a", "ok.png", Undefined),
    ImageDef("b", "cors.png", Undefined),
    ImageDef("b", "missing.png", Undefined) }

Ids == {d.id : d \in Pool}

\* the definitions that are registered while the pointer is followed: two
\* boxes that overlap
ViewerPool ==
  { BBoxDef("a", [x |-> 0, y |-> 0, w |-> 2, h |-> 2], Undefined),
    BBoxDef("b", [x |-> 1, y |-> 1, w |-> 2, h |-> 2], Undefined) }

\* an image and a box, the box with its label absent and with the label ""
MixedPool ==
  { ImageDef("a", "ok.png", Undefined),
    BBoxDef("b", [x |-> 1, y |-> 1, w |-> 2, h |-> 2], Undefined),
    BBoxDef("b", [x |-> 1, y |-> 1, w |-> 2, h |-> 2], "") }

\* pointer events: client coordinates and whether e.target lies in an overlay
InsidePoints == { <<Rect.left + n, Rect.top + n>> : n \in 0..Unit }
OutsidePoints ==
  { <<Rect.left - 1, Rect.top>>, <<Rect.left + Unit + 1, Rect.top>>,
    <<Rect.left, Rect.top - 1>>, <<Rect.left, Rect.top + Unit + 1>> }
PointerEvents ==
  { [clientX |-> p[1], clientY |-> p[2], overlay |-> o] : p \in InsidePoints, o \in BOOLEAN }
    \cup { [clientX |-> p[1], clientY |-> p[2], overlay |-> FALSE] : p \in OutsidePoints }
\* a click does not look at its target
ClickEvents == { e \in PointerEvents : ~e.overlay }

\* every normalized point of the model's grid
GridPoints == (0..Unit) \X (0..Unit)

(***************************************************************************)
(* Hit-test strategies                                                     *)
(***************************************************************************)
extractAlpha(data, pixelCount) ==
  [i \in 1..pixelCount |-> data[(i - 1) * 4 + 3 + 1]]

\* the scan of computeBoundsFromAlpha from pixel index i on; acc holds
\* minX, minY, maxX, maxY and found
RECURSIVE ScanAlpha(_, _, _, _, _, _)
ScanAlpha(alpha, w, h, threshold, i, acc) ==
  IF i >= w * h THEN acc
  ELSE LET x == i % w
           y == i \div w
       IN IF alpha[y * w + x + 1] > threshold
          THEN ScanAlpha(alpha, w, h, threshold, i + 1,
                 [minX |-> IF x < acc.minX THEN x ELSE acc.minX,
                  maxX |-> IF x > acc.maxX THEN x ELSE acc.maxX,
                  minY |-> IF y < acc.minY THEN y ELSE acc.minY,
                  maxY |-> IF y > acc.maxY THEN y ELSE acc.maxY,
                  found |-> TRUE])
          ELSE ScanAlpha(alpha, w, h, threshold, i + 1, acc)

\* the box without the + 1 that makes maxX and maxY inclusive
computeBoundsFromAlpha_Exclusive(alpha, w, h, threshold) ==
  LET r == ScanAlpha(alpha, w, h, threshold, 0,
                  [minX |-> w, minY |-> h, maxX |-> 0, maxY |-> 0, found |-> FALSE])
  IN IF ~r.found THEN FullBounds
     ELSE [x |-> (r.minX * Unit) \div w,
           y |-> (r.minY * Unit) \div h,
           w |-> ((r.maxX - r.minX) * Unit) \div w,
           h |-> ((r.maxY - r.minY) * Unit) \div h]

computeBoundsFromAlpha(alpha, w, h, threshold) ==
  IF w <= 0 \/ h <= 0 THEN FullBounds
  ELSE LET r == ScanAlpha(alpha, w, h, threshold, 0,
                  [minX |-> w, minY |-> h, maxX |-> 0, maxY |-> 0, found |-> FALSE])
       IN IF ~r.found THEN FullBounds
          ELSE [x |-> (r.minX * Unit) \div w,
                y |-> (r.minY * Unit) \div h,
                w |-> ((r.maxX - r.minX + 1) * Unit) \div w,
                h |-> ((r.maxY - r.minY + 1) * Unit) \div h]

\* the fields every strategy record carries
BlankStrategy(id, type) ==
  [id |-> id, type |-> type, bounds |-> FullBounds, src |-> "", threshold |-> 0,
   alpha |-> <<>>, width |-> 0, height |-> 0, points |-> <<>>,
   cx |-> Zero, cy |-> Zero, rx |-> Zero, ry |-> Zero]

ImageHitTestStrategy(def, threshold) ==
  [BlankStrategy(def.id, "image") EXCEPT !.src = def.src, !.threshold = threshold]

RectHitTestStrategy(def) ==
  [BlankStrategy(def.id, "bbox") EXCEPT !.bounds = def.bounds]

RECURSIVE PolygonExtent(_, _, _)
PolygonExtent(points, i, acc) ==
  IF i > Len(points) THEN acc
  ELSE LET x == points[i][1]
           y == points[i][2]
       IN PolygonExtent(points, i + 1,
            [minX |-> IF x < acc.minX THEN x ELSE acc.minX,
             maxX |-> IF x > acc.maxX THEN x ELSE acc.maxX,
             minY |-> IF y < acc.minY THEN y ELSE acc.minY,
             maxY |-> IF y > acc.maxY THEN y ELSE acc.maxY])

PolygonHitTestStrategy(def) ==
  LET e == PolygonExtent(def.points, 1,
             [minX |-> Infinity, minY |-> Infinity, maxX |-> -Infinity, maxY |-> -Infinity])
  IN [BlankStrategy(def.id, "polygon") EXCEPT
        !.points = def.points,
        !.bounds = [x |-> e.minX, y |-> e.minY,
                    w |-> NumSub(e.maxX, e.minX), h |-> NumSub(e.maxY, e.minY)]]

\* the definition's center and radius and the strategy's cx, cy, rx, ry and
\* bounds are doubles; viewportWidth and viewportHeight are whole numbers
CircleHitTestStrategy(def, viewportWidth, viewportHeight) ==
  LET safeWidth == FromInt(Max(1, viewportWidth))
      safeHeight == FromInt(Max(1, viewportHeight))
      minDimension == IF FLess(safeHeight, safeWidth) THEN safeHeight ELSE safeWidth
      rx == FDiv(FMul(def.circle.radius, minDimension), safeWidth)
      ry == FDiv(FMul(def.circle.radius, minDimension), safeHeight)
  IN [BlankStrategy(def.id, "circle") EXCEPT
        !.cx = def.circle.cx, !.cy = def.circle.cy, !.rx = rx, !.ry = ry,
        !.bounds = [x |-> FSub(def.circle.cx, rx), y |-> FSub(def.circle.cy, ry),
                    w |-> FMul(rx, FromInt(2)), h |-> FMul(ry, FromInt(2))]]

\* useCutoutHitTest passes no viewport options: both default to 1
createHitTestStrategy(def, threshold) ==
  CASE def.type = "image"   -> ImageHitTestStrategy(def, threshold)
    [] def.type = "bbox"    -> RectHitTestStrategy(def)
    [] def.type = "polygon" -> PolygonHitTestStrategy(def)
    [] def.type = "circle"  -> CircleHitTestStrategy(def, 1, 1)

\* only the image strategy has a prepare() method
HasPrepare(s) == s.type = "image"

\* prepare() without its try/catch: the exception of getImageData escapes
prepareOutcome_NoCatch(s) ==
  LET img == ImageSource(s.src)
  IN IF img.naturalWidth <= 0 \/ img.naturalHeight <= 0 THEN "resolved"
     ELSE IF ~img.context THEN "resolved"
     ELSE IF ~img.readable THEN "rejected"
     ELSE "resolved"

\* How the promise of prepare() settles: onload and onerror both resolve
\* it, the early returns resolve it, and the catch swallows the exception
\* of getImageData on a tainted canvas.
prepareOutcome(s) ==
  LET img == ImageSource(s.src)
  IN IF img.naturalWidth <= 0 \/ img.naturalHeight <= 0 THEN "resolved"
     ELSE IF ~img.context THEN "resolved"
     ELSE IF ~img.readable THEN "resolved"
     ELSE "resolved"

\* the strategy after its prepare() has resolved
prepare(s) ==
  LET img == ImageSource(s.src)
      w == img.naturalWidth
      h == img.naturalHeight
  IN IF w <= 0 \/ h <= 0 THEN s
     ELSE IF ~img.context THEN s
     ELSE IF ~img.readable THEN [s EXCEPT !.alpha = <<>>]
     ELSE LET a == extractAlpha(img.data, w * h)
          IN [s EXCEPT !.alpha = a, !.width = w, !.height = h,
                       !.bounds = computeBoundsFromAlpha(a, w, h, s.threshold)]

\* nx < b.x || nx > b.x + b.w || ny < b.y || ny > b.y + b.h
OutsideBounds(b, nx, ny) ==
  \/ NumLess(nx, b.x) \/ NumLess(NumAdd(b.x, b.w), nx)
  \/ NumLess(ny, b.y) \/ NumLess(NumAdd(b.y, b.h), ny)

\* Math.floor(n * size) for the normalized value n / Unit
FloorScaled(n, size) == (n * size) \div Unit

\* alpha[index] > threshold; a read outside the buffer gives undefined,
\* which compares false
AlphaAbove(alpha, index, threshold) ==
  IF index < 0 \/ index >= Len(alpha) THEN FALSE
  ELSE alpha[index + 1] > threshold

ImageHitTest(s, nx, ny) ==
  IF Len(s.alpha) = 0 THEN FALSE
  ELSE IF OutsideBounds(s.bounds, nx, ny) THEN FALSE
  ELSE LET px == Min(s.width - 1, Max(0, FloorScaled(nx, s.width)))
           py == Min(s.height - 1, Max(0, FloorScaled(ny, s.height)))
       IN AlphaAbove(s.alpha, py * s.width + px, s.threshold)

RectHitTest(s, nx, ny) ==
  LET b == s.bounds
  IN nx >= b.x /\ nx <= b.x + b.w /\ ny >= b.y /\ ny <= b.y + b.h

\* px < ((xj - xi) * (py - yi)) / (yj - yi) + xi, multiplied out by yj - yi
RayCrosses(px, py, pi, pj) ==
  LET xi == pi[1]
      yi == pi[2]
      xj == pj[1]
      yj == pj[2]
  IN /\ (yi > py) # (yj > py)
     /\ IF yj - yi > 0
        THEN (px - xi) * (yj - yi) < (xj - xi) * (py - yi)
        ELSE (px - xi) * (yj - yi) > (xj - xi) * (py - yi)

RECURSIVE PolygonLoop(_, _, _, _, _, _)
PolygonLoop(px, py, points, i, j, inside) ==
  IF i > Len(points) THEN inside
  ELSE PolygonLoop(px, py, points, i + 1, i,
         IF RayCrosses(px, py, points[i], points[j]) THEN ~inside ELSE inside)

\* the loop without the edge that closes the polygon (last vertex to first)
pointInPolygon_Open(px, py, points) ==
  PolygonLoop(px, py, points, 2, 1, FALSE)

pointInPolygon(px, py, points) ==
  PolygonLoop(px, py, points, 1, Len(points), FALSE)

PolygonHitTest(s, nx, ny) ==
  IF OutsideBounds(s.bounds, nx, ny) THEN FALSE
  ELSE pointInPolygon(nx, ny, s.points)

\* variant without the guard on the radii: a division by zero gives an
\* infinity or NaN, which fails the comparison
CircleHitTest_NoGuard(s, nx, ny) ==
  IF s.rx = Zero \/ s.ry = Zero THEN FALSE
  ELSE LET dx == FDiv(FSub(nx, s.cx), s.rx)
           dy == FDiv(FSub(ny, s.cy), s.ry)
       IN FLeq(FAdd(FMul(dx, dx), FMul(dy, dy)), One)

\* the point and the strategy's fields are doubles
CircleHitTest(s, nx, ny) ==
  IF FLeq(s.rx, Zero) \/ FLeq(s.ry, Zero) THEN FALSE
  ELSE LET dx == FDiv(FSub(nx, s.cx), s.rx)
           dy == FDiv(FSub(ny, s.cy), s.ry)
       IN FLeq(FAdd(FMul(dx, dx), FMul(dy, dy)), One)

hitTest(s, nx, ny) ==
  CASE s.type = "image"   -> ImageHitTest(s, nx, ny)
    [] s.type = "bbox"    -> RectHitTest(s, nx, ny)
    [] s.type = "polygon" -> PolygonHitTest(s, nx, ny)
    [] s.type = "circle"  -> CircleHitTest(s, nx, ny)

(***************************************************************************)
(* The cutout registry of <CutoutViewer>: a Map in insertion order         *)
(***************************************************************************)
MapHas(m, id) == \E i \in 1..Len(m) : m[i].id = id
MapIndex(m, id) == CHOOSE i \in 1..Len(m) : m[i].id = id
MapGet(m, id) == m[MapIndex(m, id)]
\* variant: a set that moves a key already present to the end
MapSet_MovesToEnd(m, def) == Append(SelectSeq(m, LAMBDA d : d.id # def.id), def)

\* Map.set keeps the position of a key that is already present
MapSet(m, def) ==
  IF MapHas(m, def.id) THEN [m EXCEPT ![MapIndex(m, def.id)] = def]
  ELSE Append(m, def)
MapDelete(m, id) == SelectSeq(m, LAMBDA d : d.id # id)

LabelOrEmpty(def) == IF def.label = Undefined THEN "" ELSE def.label

\* String(n) of the number n / Unit, Unit being 4: 0, 0.25, 0.5, 0.75, 1, ...
NumberToString(n) ==
  LET a == IF n < 0 THEN -n ELSE n
      frac == CASE a % Unit = 0 -> ""
                [] a % Unit = 1 -> ".25"
                [] a % Unit = 2 -> ".5"
                [] a % Unit = 3 -> ".75"
  IN (IF n < 0 THEN "-" ELSE "") \o ToString(a \div Unit) \o frac

\* points.flat().join(",")
RECURSIVE JoinPoints(_, _)
JoinPoints(points, i) ==
  IF i > Len(points) THEN ""
  ELSE (IF i > 1 THEN "," ELSE "")
         \o NumberToString(points[i][1]) \o "," \o NumberToString(points[i][2])
         \o JoinPoints(points, i + 1)

\* the part of the serialized string both serializers share
SerializeShape(def) ==
  CASE def.type = "image" -> "image:" \o def.src \o ":" \o LabelOrEmpty(def)
    [] def.type = "bbox" ->
         "bbox:" \o NumberToString(def.bounds.x) \o "," \o NumberToString(def.bounds.y)
           \o "," \o NumberToString(def.bounds.w) \o "," \o NumberToString(def.bounds.h)
           \o ":" \o LabelOrEmpty(def)
    [] def.type = "polygon" ->
         "polygon:" \o JoinPoints(def.points, 1) \o ":" \o LabelOrEmpty(def)
    [] def.type = "circle" ->
         "circle:" \o FToString(def.circle.cx) \o "," \o FToString(def.circle.cy)
           \o "," \o FToString(def.circle.radius) \o ":" \o LabelOrEmpty(def)

\* the viewer's serializeDefinition; its switch has the three types that
\* the viewer's own components register
serializeDefinition(def) ==
  IF def.type \in {"image", "bbox", "polygon"} THEN SerializeShape(def) ELSE Undefined

\* registerCutout without the comparison of the serialized definitions
registerCutout_Always(prev, def) == MapSet(prev, def)

registerCutout(prev, def) ==
  IF MapHas(prev, def.id)
       /\ serializeDefinition(MapGet(prev, def.id)) = serializeDefinition(def)
  THEN prev
  ELSE MapSet(prev, def)

unregisterCutout(prev, id) ==
  IF ~MapHas(prev, id) THEN prev ELSE MapDelete(prev, id)

(***************************************************************************)
(* useCutoutHitTest: strategy build                                        *)
(***************************************************************************)
\* the hook's serializeDefinition, which also covers the id and circles
serializeDefinitionKey(def) == def.id \o ":" \o SerializeShape(def)

\* definitions.map(serializeDefinition).join("|")
RECURSIVE definitionsKeyFrom(_, _)
definitionsKeyFrom(definitions, i) ==
  IF i > Len(definitions) THEN ""
  ELSE (IF i > 1 THEN "|" ELSE "") \o serializeDefinitionKey(definitions[i])
         \o definitionsKeyFrom(definitions, i + 1)
definitionsKey(definitions) == definitionsKeyFrom(definitions, 1)

EmptyMap == [k \in {} |-> FullBounds]
MapPut(m, id, b) == [k \in (DOMAIN m) \cup {id} |-> IF k = id THEN b ELSE m[k]]

\* a call of buildStrategies() about to look at definition number i
NewBuild(defs) ==
  [defs |-> defs, i |-> 1, cur |-> BlankStrategy(Null, "none"),
   strategies |-> <<>>, newBoundsMap |-> EmptyMap,
   cancelled |-> FALSE, thrown |-> FALSE, done |-> FALSE]

\* the loop of buildStrategies() up to its next await, or to its end
RECURSIVE RunLoop(_)
RunLoop(b) ==
  IF b.i > Len(b.defs) THEN [b EXCEPT !.done = TRUE]
  ELSE LET strategy == createHitTestStrategy(b.defs[b.i], clampThreshold)
       IN IF HasPrepare(strategy) THEN [b EXCEPT !.cur = strategy]
          ELSE RunLoop([b EXCEPT
                 !.i = b.i + 1,
                 !.strategies = Append(b.strategies, strategy),
                 !.newBoundsMap = MapPut(b.newBoundsMap, strategy.id, strategy.bounds)])

\* variant: the strategy that was awaited is not collected
ResumeBuild_Drops(b) ==
  IF prepareOutcome(b.cur) # "resolved" THEN [b EXCEPT !.done = TRUE, !.thrown = TRUE]
  ELSE IF b.cancelled THEN [b EXCEPT !.done = TRUE]
  ELSE RunLoop([b EXCEPT !.i = b.i + 1])

\* the build after the prepare() it awaits has resolved: the cancelled
\* build returns, the live one goes on to its next await or to its end
ResumeBuild(b) ==
  LET strategy == prepare(b.cur)
  IN IF prepareOutcome(b.cur) # "resolved" THEN [b EXCEPT !.done = TRUE, !.thrown = TRUE]
     ELSE IF b.cancelled THEN [b EXCEPT !.done = TRUE]
     ELSE RunLoop([b EXCEPT
            !.i = b.i + 1,
            !.strategies = Append(b.strategies, strategy),
            !.newBoundsMap = MapPut(b.newBoundsMap, strategy.id, strategy.bounds)])

\* publishing whatever the loop has collected when it stops at an await
Published_Early(b) == ~b.thrown /\ ~b.cancelled

\* the call reached `if (!cancelled)` behind its loop and publishes
Published(b) == b.done /\ ~b.thrown /\ ~b.cancelled

\* The cleanup of the build effect sets `cancelled`.  A cancelled call only
\* returns once its prepare() resolves, so of its locals the model keeps
\* the strategy being prepared and drops the rest.
CancelBuild(b) == [NewBuild(<<>>) EXCEPT !.cur = b.cur, !.cancelled = TRUE]

\* every suspended call is cancelled at most once more; calls that wait for
\* the same image stay apart, each returns at its own resolution
CancelAll(bs) == BagOfAll(CancelBuild, bs)

\* the suspended calls whose `cancelled` flag is not set
LiveBuilds(bs) == {w \in BagToSet(bs) : ~w.cancelled}

\* the dependencies [stableDefinitions, enabled, clampThreshold] of the
\* build effect differ between the committed render and the one with the
\* definitions newDefs and the prop newEnabled
EffectReruns(newDefs, newEnabled) ==
  ~(definitionsKey(newDefs) = definitionsKey(cutoutMap) /\ newEnabled = enabled)

\* React renders the viewer with the prop newEnabled and commits.  It runs
\* the passive effects of the previous commit before it renders again; the
\* render applies every setCutoutMap() updater and the setBoundsMap() that
\* are queued, whichever call scheduled it; the build effect is scheduled,
\* to run after the commit, when its dependencies changed.
Commit(newEnabled) ==
  /\ ~effectPending
  /\ EffectReruns(queuedMap, newEnabled) => BagCardinality(builds) <= MaxStale
  /\ cutoutMap' = queuedMap
  /\ boundsMap' = IF queuedBounds = <<>> THEN boundsMap ELSE queuedBounds[1]
  /\ queuedBounds' = <<>>
  /\ effectPending' = EffectReruns(queuedMap, newEnabled)
  /\ UNCHANGED <<queuedMap, strategiesRef, builds>>

\* The scheduled build effect runs: the cleanup of its previous run, then
\* its body.  `strategiesRef.current = ...` takes effect at once,
\* setBoundsMap() only queues the new state for the next render.
BuildEffect ==
  /\ effectPending
  /\ effectPending' = FALSE
  /\ IF ~enabled
     THEN /\ strategiesRef' = <<>>
          /\ builds' = CancelAll(builds)
          /\ UNCHANGED <<boundsMap, queuedBounds>>
     ELSE LET b == RunLoop(NewBuild(cutoutMap))
          IN IF Published(b)
             THEN /\ strategiesRef' = b.strategies
                  /\ queuedBounds' = <<b.newBoundsMap>>
                  /\ builds' = CancelAll(builds)
                  /\ UNCHANGED boundsMap
             ELSE /\ builds' = CancelAll(builds) (+) SetToBag({b})
                  /\ UNCHANGED <<strategiesRef, boundsMap, queuedBounds>>
  /\ lastEvent' = "effect"
  /\ UNCHANGED <<cutoutMap, queuedMap, enabled, hoveredId, selectedId, timerPending>>

\* the render React has scheduled for the setCutoutMap() and setBoundsMap()
\* calls made since the last one: one render for all of them
Render ==
  /\ queuedMap # cutoutMap \/ queuedBounds # <<>>
  /\ Commit(enabled)
  /\ lastEvent' = "render"
  /\ UNCHANGED <<enabled, hoveredId, selectedId, timerPending>>

\* A child registers its definition: registerCutout() queues its updater
\* and returns.  React runs the updaters in the order of the calls when it
\* renders next, each on the result of the one before.
Register(def) ==
  /\ queuedMap' = registerCutout(queuedMap, def)
  /\ lastEvent' = IF queuedMap' = queuedMap THEN "registerNoop" ELSE "register"
  /\ UNCHANGED <<cutoutMap, enabled, hoveredId, selectedId, timerPending,
                 strategiesRef, boundsMap, queuedBounds, effectPending, builds>>

\* a child unregisters its id: unregisterCutout() queues its updater
Unregister(id) ==
  /\ queuedMap' = unregisterCutout(queuedMap, id)
  /\ lastEvent' = IF queuedMap' = queuedMap THEN "unregisterNoop" ELSE "unregister"
  /\ UNCHANGED <<cutoutMap, enabled, hoveredId, selectedId, timerPending,
                 strategiesRef, boundsMap, queuedBounds, effectPending, builds>>

\* the parent flips the enabled prop and the viewer renders
SetEnabled ==
  /\ enabled' = ~enabled
  /\ Commit(enabled')
  /\ lastEvent' = IF enabled' THEN "enable" ELSE "disable"
  /\ UNCHANGED <<hoveredId, selectedId, timerPending>>

\* the image the suspended call w waits for has loaded or failed
PrepareResolved(w) ==
  /\ w \in BagToSet(builds)
  /\ LET b == ResumeBuild(w)
     IN IF Published(b)
        THEN /\ builds' = builds (-) SetToBag({w})
             /\ strategiesRef' = b.strategies
             /\ queuedBounds' = <<b.newBoundsMap>>
             /\ lastEvent' = "preparePublish"
        ELSE IF b.done
        THEN /\ builds' = builds (-) SetToBag({w})
             /\ lastEvent' = IF b.thrown THEN "prepareRejected" ELSE "prepareStale"
             /\ UNCHANGED <<strategiesRef, queuedBounds>>
        ELSE /\ builds' = (builds (-) SetToBag({w})) (+) SetToBag({b})
             /\ lastEvent' = "prepareNext"
             /\ UNCHANGED <<strategiesRef, queuedBounds>>
  /\ UNCHANGED <<cutoutMap, queuedMap, enabled, hoveredId, selectedId, timerPending,
                 boundsMap, effectPending>>

(***************************************************************************)
(* useCutoutHitTest: queries and pointer handlers                          *)
(***************************************************************************)
RECURSIVE HitLoop(_, _, _, _)
HitLoop(strategies, i, nx, ny) ==
  IF i < 1 THEN Null
  ELSE IF hitTest(strategies[i], nx, ny) THEN strategies[i].id
  ELSE HitLoop(strategies, i - 1, nx, ny)

\* variant: the list is walked from its first entry
RECURSIVE HitLoopForward(_, _, _, _)
HitLoopForward(strategies, i, nx, ny) ==
  IF i > Len(strategies) THEN Null
  ELSE IF hitTest(strategies[i], nx, ny) THEN strategies[i].id
  ELSE HitLoopForward(strategies, i + 1, nx, ny)

hitTestAt_FirstWins(strategies, nx, ny) == HitLoopForward(strategies, 1, nx, ny)

hitTestAt(strategies, nx, ny) == HitLoop(strategies, Len(strategies), nx, ny)

\* null, or the normalized position <<nx, ny>> in Unit scale
getNormalizedPos(e) ==
  LET nx == ((e.clientX - Rect.left) * Unit) \div Rect.width
      ny == ((e.clientY - Rect.top) * Unit) \div Rect.height
  IN IF nx < 0 \/ nx > Unit \/ ny < 0 \/ ny > Unit THEN Null ELSE <<nx, ny>>

\* variant: no timer is ever set
scheduleHoverClear_Never(pending) == pending

\* the timer is set unless one is pending; either way one is pending after
scheduleHoverClear(pending) == IF pending THEN pending ELSE TRUE

\* variant: the pending timeout is left running
cancelHoverClear_Keeps(pending) == pending

cancelHoverClear(pending) == IF pending THEN FALSE ELSE pending

\* variant: hover is only acquired while nothing is hovered
hoverOnHit_Sticky(hitId) ==
  [hoveredId |-> IF hoveredId = Null THEN hitId ELSE hoveredId,
   timerPending |-> cancelHoverClear(timerPending)]

\* the hit branch of handlePointerMove: cancelHoverClear(); setHoveredId(hitId)
hoverOnHit(hitId) ==
  [hoveredId |-> hitId, timerPending |-> cancelHoverClear(timerPending)]

handlePointerMove(e) ==
  /\ LET pos == getNormalizedPos(e)
     IN IF ~enabled
        THEN /\ lastEvent' = "moveDisabled"
             /\ UNCHANGED <<hoveredId, timerPending>>
        ELSE IF pos = Null
        THEN /\ timerPending' = scheduleHoverClear(timerPending)
             /\ lastEvent' = "moveOut"
             /\ UNCHANGED hoveredId
        ELSE LET hitId == hitTestAt(strategiesRef, pos[1], pos[2])
             IN IF hitId = Null
                THEN IF e.overlay
                     THEN /\ timerPending' = cancelHoverClear(timerPending)
                          /\ lastEvent' = "moveOverlay"
                          /\ UNCHANGED hoveredId
                     ELSE /\ timerPending' = scheduleHoverClear(timerPending)
                          /\ lastEvent' = "moveMiss"
                          /\ UNCHANGED hoveredId
                ELSE /\ timerPending' = hoverOnHit(hitId).timerPending
                     /\ hoveredId' = hoverOnHit(hitId).hoveredId
                     /\ lastEvent' = IF timerPending /\ hoveredId = hitId THEN "moveReenter"
                                     ELSE IF hoveredId \notin {Null, hitId} THEN "moveSwitch"
                                     ELSE "moveHit"
  /\ UNCHANGED <<cutoutMap, queuedMap, enabled, selectedId, strategiesRef, boundsMap, queuedBounds, effectPending, builds>>

handlePointerLeave ==
  /\ timerPending' = scheduleHoverClear(timerPending)
  /\ lastEvent' = "leave"
  /\ UNCHANGED <<cutoutMap, queuedMap, enabled, hoveredId, selectedId, strategiesRef, boundsMap, queuedBounds, effectPending, builds>>

\* variant: a click on the selected cutout keeps it selected
selectionOnClick_NoToggle(hitId) ==
  IF hitId = Null THEN Null ELSE hitId

\* the in-range branch of handleClick: the next selectedId
selectionOnClick(hitId) ==
  IF hitId = selectedId \/ hitId = Null THEN Null ELSE hitId

handleClick(e) ==
  /\ LET pos == getNormalizedPos(e)
     IN IF ~enabled
        THEN /\ lastEvent' = "clickDisabled"
             /\ UNCHANGED selectedId
        ELSE IF pos = Null
        THEN /\ selectedId' = Null
             /\ lastEvent' = "clickOut"
        ELSE LET hitId == hitTestAt(strategiesRef, pos[1], pos[2])
             IN /\ selectedId' = selectionOnClick(hitId)
                /\ lastEvent' = IF hitId = Null THEN "clickEmpty"
                                ELSE IF hitId = selectedId THEN "clickSame"
                                ELSE "clickSelect"
  /\ UNCHANGED <<cutoutMap, queuedMap, enabled, hoveredId, timerPending, strategiesRef, boundsMap, queuedBounds, effectPending, builds>>

\* variant: the timeout callback also drops the selection
HoverClearTimeout_Deselects ==
  /\ timerPending
  /\ timerPending' = FALSE
  /\ hoveredId' = Null
  /\ selectedId' = Null
  /\ lastEvent' = "timer"
  /\ UNCHANGED <<cutoutMap, queuedMap, enabled, strategiesRef, boundsMap, queuedBounds, effectPending, builds>>

\* the callback of the hover-clear timeout
HoverClearTimeout ==
  /\ timerPending
  /\ timerPending' = FALSE
  /\ hoveredId' = Null
  /\ lastEvent' = "timer"
  /\ UNCHANGED <<cutoutMap, queuedMap, enabled, selectedId, strategiesRef, boundsMap, queuedBounds, effectPending, builds>>

(***************************************************************************)
(* The hover-clear timeout in time.  The clock counts ticks; a timeout     *)
(* set at time t is due at t + hoverLeaveDelay and its callback runs at    *)
(* that time or later.                                                     *)
(***************************************************************************)
\* the hoverLeaveDelay option (default 150 ms), in ticks
hoverLeaveDelay == 2

\* the clock stops here
MaxTime == 3

NoTimer == 0     \* null in hoverClearTimerRef
NoTime == -1     \* no such moment

\* window.setTimeout(callback, hoverLeaveDelay) at time t: a timeout with
\* an id no pending timeout has
setTimeout(ts, t) ==
  LET id == CHOOSE n \in 1..(Cardinality(ts) + 1) : \A x \in ts : x.id # n
  IN [id |-> id, timers |-> ts \cup {[id |-> id, due |-> t + hoverLeaveDelay]}]

\* window.clearTimeout(id)
clearTimeout(ts, id) == {x \in ts : x.id # id}

\* variant: scheduleHoverClear without its `!== null` test
scheduleHoverClearAt_Restart(ref, ts, t) ==
  LET r == setTimeout(ts, t)
  IN [ref |-> r.id, timers |-> r.timers]

\* scheduleHoverClear with the timeout it sets
scheduleHoverClearAt(ref, ts, t) ==
  IF ref # NoTimer THEN [ref |-> ref, timers |-> ts]
  ELSE LET r == setTimeout(ts, t)
       IN [ref |-> r.id, timers |-> r.timers]

\* variant: cancelHoverClear forgets the timeout but does not clear it
cancelHoverClearAt_Forgets(ref, ts) ==
  [ref |-> NoTimer, timers |-> ts]

\* cancelHoverClear with the timeout it clears
cancelHoverClearAt(ref, ts) ==
  IF ref # NoTimer THEN [ref |-> NoTimer, timers |-> clearTimeout(ts, ref)]
  ELSE [ref |-> ref, timers |-> ts]

NoRun ==
  [first |-> NoTime, last |-> NoTime, hovered |-> Null,
   clearedAt |-> NoTime, cancelledAt |-> NoTime]

\* history: a no-hit event (a pointer-leave, or a move that is out of range
\* or misses off every overlay) at time t starts a run or continues one
NoHitAt(run, t) ==
  IF run.first = NoTime \/ run.clearedAt # NoTime \/ run.cancelledAt # NoTime
  THEN [NoRun EXCEPT !.first = t, !.last = t, !.hovered = hoveredId]
  ELSE [run EXCEPT !.last = t]

\* history: a hit or an overlay move at time t ends the run under way
CancelledAt(run, t) ==
  IF run.first # NoTime /\ run.clearedAt = NoTime /\ run.cancelledAt = NoTime
  THEN [run EXCEPT !.cancelledAt = t]
  ELSE NoRun

\* handlePointerMove with the timeouts it sets and clears
TimedPointerMove(e) ==
  /\ handlePointerMove(e)
  /\ LET r == IF lastEvent' \in {"moveOut", "moveMiss"}
              THEN scheduleHoverClearAt(timerRef, timers, now)
              ELSE IF lastEvent' = "moveDisabled"
              THEN [ref |-> timerRef, timers |-> timers]
              ELSE cancelHoverClearAt(timerRef, timers)
     IN /\ timerRef' = r.ref
        /\ timers' = r.timers
  /\ noHit' = IF lastEvent' \in {"moveOut", "moveMiss"} THEN NoHitAt(noHit, now)
              ELSE IF lastEvent' = "moveDisabled" THEN noHit
              ELSE CancelledAt(noHit, now)
  /\ UNCHANGED now

\* handlePointerLeave with the timeout it sets
TimedPointerLeave ==
  /\ handlePointerLeave
  /\ LET r == scheduleHoverClearAt(timerRef, timers, now)
     IN /\ timerRef' = r.ref
        /\ timers' = r.timers
  /\ noHit' = NoHitAt(noHit, now)
  /\ UNCHANGED now

\* handleClick: it neither sets nor clears a timeout
TimedClick(e) ==
  /\ handleClick(e)
  /\ UNCHANGED timerVars

\* a timeout that is due runs its callback:
\* hoverClearTimerRef.current = null; setHoveredId(null)
TimedHoverClearTimeout ==
  /\ \E x \in timers : x.due <= now /\ timers' = timers \ {x}
  /\ timerRef' = NoTimer
  /\ timerPending' = FALSE
  /\ hoveredId' = Null
  /\ lastEvent' = "timer"
  /\ noHit' = [noHit EXCEPT !.clearedAt = now]
  /\ UNCHANGED <<cutoutMap, queuedMap, enabled, selectedId, strategiesRef, boundsMap, queuedBounds, effectPending, builds, now>>

\* time passes, also past a timeout that is due: the runtime runs a callback
\* at its due time or later, when the event loop gets to it
Tick ==
  /\ now < MaxTime
  /\ now' = now + 1
  /\ UNCHANGED <<viewerVars, timers, timerRef, noHit>>

TimerInit ==
  /\ now = 0
  /\ timers = {}
  /\ timerRef = NoTimer
  /\ noHit = NoRun

TeardownInit ==
  /\ mounted = TRUE
  /\ disposeCalls = <<>>

(***************************************************************************)
(* useDrawPolygon.  Clicked positions and the vertices are pairs of        *)
(* doubles.                                                                *)
(***************************************************************************)
DrawRect == [left |-> 10, top |-> 20, width |-> 100, height |-> 100]

\* the rectangle of a container that has no layout box
ZeroRect == [left |-> 0, top |-> 0, width |-> 0, height |-> 0]

\* null where a point is expected: no position
NoPoint == <<>>

\* the defaults of the hook's options
minPoints == 3
closeThreshold == DblDiv(DblFromInt(3), DblFromInt(100))

\* at most this many vertices are drawn
MaxDrawPoints == 5

\* A mouse event on the drawing container carries the rectangle that
\* getBoundingClientRect() returns for the container when its handler runs.
DrawEventAt(x, y) ==
  [clientX |-> DrawRect.left + x, clientY |-> DrawRect.top + y, rect |-> DrawRect]

\* clicks: at (0.26, 0.1); at (0.29, 0.1), which is 0.02999999999999997
\* from the first in x; at (0.26, 0.13), which is 0.03 from the first in y;
\* at (0.28, 0.12), which is 0.02828427124746191 from the first; and left
\* of the container
DrawEvents ==
  { DrawEventAt(26, 10), DrawEventAt(29, 10), DrawEventAt(26, 13), DrawEventAt(28, 12),
    DrawEventAt(-1, 10) }

\* pointer moves: to a spot of the container, and out of it
DrawMoves == { DrawEventAt(29, 10), DrawEventAt(-1, 10) }

\* [nx, ny], or null if one of them is below 0 or above 1
NormalizedOrNull(nx, ny) ==
  IF DblLess(nx, DblZero) \/ DblGreater(nx, DblOne)
       \/ DblLess(ny, DblZero) \/ DblGreater(ny, DblOne)
  THEN NoPoint
  ELSE <<nx, ny>>

\* x / 0 is an infinity and 0 / 0 is NaN, which passes the range test
getNormalized(rect, clientX, clientY) ==
  NormalizedOrNull(
    DblDiv(DblSub(DblFromInt(clientX), DblFromInt(rect.left)), DblFromInt(rect.width)),
    DblDiv(DblSub(DblFromInt(clientY), DblFromInt(rect.top)), DblFromInt(rect.height)))

\* Math.sqrt(dx * dx + dy * dy)
Hypotenuse(dx, dy) == DblSqrt(DblAdd(DblMul(dx, dx), DblMul(dy, dy)))

\* isNearFirst without the minPoints test
isNearFirst_NoMin(pos, pts) ==
  IF Len(pts) < 1 THEN FALSE
  ELSE DblLess(Hypotenuse(DblSub(pos[1], pts[1][1]), DblSub(pos[2], pts[1][2])),
               closeThreshold)

isNearFirst(pos, pts) ==
  IF Len(pts) < minPoints THEN FALSE
  ELSE DblLess(Hypotenuse(DblSub(pos[1], pts[1][1]), DblSub(pos[2], pts[1][2])),
               closeThreshold)

\* complete(pts): what it does to the onComplete log and the preview point;
\* its setPoints([]) is the value the calling updater returns as well
complete(pts) ==
  IF Len(pts) < minPoints
  THEN /\ completions' = <<>>
       /\ UNCHANGED previewPoint
  ELSE /\ completions' = <<pts>>
       /\ previewPoint' = NoPoint

\* prev.slice(0, -1)
DropLast(pts) == IF Len(pts) = 0 THEN pts ELSE SubSeq(pts, 1, Len(pts) - 1)

IdleGesture ==
  [stage |-> 0, event |-> DrawEventAt(0, 0), pos |-> NoPoint, before |-> <<>>, calls |-> 0]

\* the handler of click on the hook's own state, pos being what
\* getNormalized returned for the event
DrawHandleClick(pos) ==
  IF pos = NoPoint
  THEN /\ completions' = <<>>
       /\ UNCHANGED <<drawPoints, previewPoint>>
  ELSE IF isNearFirst(pos, drawPoints)
  THEN /\ complete(drawPoints)
       /\ drawPoints' = <<>>
  ELSE /\ Len(drawPoints) < MaxDrawPoints
       /\ drawPoints' = Append(drawPoints, pos)
       /\ completions' = <<>>
       /\ UNCHANGED previewPoint

DrawClickAt(e, pos) ==
  /\ DrawHandleClick(pos)
  /\ gesture' = [stage |-> 1, event |-> e, pos |-> pos, before |-> drawPoints,
                 calls |-> Len(completions')]

\* a click; it may be the first click of a double-click
DrawClick(e) == DrawClickAt(e, getNormalized(e.rect, e.clientX, e.clientY))

\* the second click of a double-click, at the position of the first
DrawSecondClick(e) ==
  /\ gesture.stage = 1
  /\ e = gesture.event
  /\ DrawHandleClick(getNormalized(e.rect, e.clientX, e.clientY))
  /\ gesture' = [gesture EXCEPT !.stage = 2, !.calls = @ + Len(completions')]

\* the dblclick handler completing with the duplicate vertex still in the list
DrawHandleDoubleClick_NoTrim ==
  IF Len(drawPoints) >= minPoints
  THEN /\ complete(drawPoints)
       /\ drawPoints' = <<>>
  ELSE /\ drawPoints' = drawPoints
       /\ completions' = <<>>
       /\ UNCHANGED previewPoint

\* the handler of dblclick, on the hook's own state
DrawHandleDoubleClick ==
  IF Len(DropLast(drawPoints)) >= minPoints
  THEN /\ complete(DropLast(drawPoints))
       /\ drawPoints' = <<>>
  ELSE /\ drawPoints' = DropLast(drawPoints)
       /\ completions' = <<>>
       /\ UNCHANGED previewPoint

\* the browser sends dblclick after the two clicks
DrawDoubleClick ==
  /\ gesture.stage = 2
  /\ DrawHandleDoubleClick
  /\ gesture' = [gesture EXCEPT !.stage = 3]

DrawContextMenu ==
  /\ drawPoints' = DropLast(drawPoints)
  /\ completions' = <<>>
  /\ gesture' = IdleGesture
  /\ UNCHANGED previewPoint

DrawPointerMove(e) ==
  /\ previewPoint' = getNormalized(e.rect, e.clientX, e.clientY)
  /\ completions' = <<>>
  /\ gesture' = IdleGesture
  /\ UNCHANGED drawPoints

DrawPointerLeave ==
  /\ previewPoint' = NoPoint
  /\ completions' = <<>>
  /\ gesture' = IdleGesture
  /\ UNCHANGED drawPoints

reset ==
  /\ drawPoints' = <<>>
  /\ previewPoint' = NoPoint
  /\ completions' = <<>>
  /\ gesture' = IdleGesture

willClose == previewPoint # NoPoint /\ isNearFirst(previewPoint, drawPoints)

DrawInit ==
  /\ drawPoints = <<>>
  /\ previewPoint = NoPoint
  /\ completions = <<>>
  /\ gesture = IdleGesture

\* no pure-function call is being looked at
NoCall == [fn |-> "none"]
NoResult == [done |-> FALSE]

\* what the hook returns
\* hoveredId ?? selectedId: the operands the wrong way round
activeId_HoverFirst == IF hoveredId # Null THEN hoveredId ELSE selectedId
activeId == IF selectedId # Null THEN selectedId ELSE hoveredId
effectiveBoundsMap == IF enabled THEN boundsMap ELSE EmptyMap

Init ==
  /\ cutoutMap = <<>>
  /\ queuedMap = <<>>
  /\ enabled \in BOOLEAN
  /\ hoveredId = Null
  /\ selectedId = Null
  /\ timerPending = FALSE
  /\ strategiesRef = <<>>
  /\ boundsMap = EmptyMap
  /\ queuedBounds = <<>>
  /\ effectPending = TRUE
  /\ builds = EmptyBag
  /\ lastEvent = "mount"
  /\ fnCall = NoCall
  /\ fnResult = NoResult
  /\ DrawInit
  /\ TimerInit
  /\ TeardownInit

Next ==
  \/ (\E def \in ViewerPool : Register(def)) /\ UNCHANGED <<fnVars, drawVars, timerVars, teardownVars>>
  \/ (\E id \in Ids : Unregister(id)) /\ UNCHANGED <<fnVars, drawVars, timerVars, teardownVars>>
  \/ SetEnabled /\ UNCHANGED <<fnVars, drawVars, timerVars, teardownVars>>
  \/ BuildEffect /\ UNCHANGED <<fnVars, drawVars, timerVars, teardownVars>>
  \/ Render /\ UNCHANGED <<fnVars, drawVars, timerVars, teardownVars>>
  \/ (\E e \in PointerEvents : handlePointerMove(e)) /\ UNCHANGED <<fnVars, drawVars, timerVars, teardownVars>>
  \/ handlePointerLeave /\ UNCHANGED <<fnVars, drawVars, timerVars, teardownVars>>
  \/ (\E e \in ClickEvents : handleClick(e)) /\ UNCHANGED <<fnVars, drawVars, timerVars, teardownVars>>
  \/ HoverClearTimeout /\ UNCHANGED <<fnVars, drawVars, timerVars, teardownVars>>

Spec == Init /\ [][Next]_vars

(***************************************************************************)
(* Properties                                                              *)
(***************************************************************************)
MoveEvents == {"moveDisabled", "moveOut", "moveOverlay", "moveMiss",
               "moveHit", "moveReenter", "moveSwitch"}
HitMoves == {"moveHit", "moveReenter", "moveSwitch"}
ClickSteps == {"clickOut", "clickEmpty", "clickSame", "clickSelect"}

\* the strategy indexes that contain the point, and the topmost of them
HitIndexes(strategies, nx, ny) ==
  {i \in 1..Len(strategies) : hitTest(strategies[i], nx, ny)}
TopmostHit(strategies, nx, ny) ==
  LET hits == HitIndexes(strategies, nx, ny)
  IN IF hits = {} THEN Null
     ELSE strategies[CHOOSE i \in hits : \A j \in hits : j <= i].id

\* C1: pointer-move, pointer-leave and the hover-clear timeout never change
\* selectedId, and a selection once made changes only in a click: on the
\* same region or on empty space (cleared) or on another region (replaced).
C1_SelectionPersists ==
  [][/\ lastEvent' \in MoveEvents \cup {"leave", "timer"} => selectedId' = selectedId
     /\ (selectedId # Null /\ selectedId' # selectedId) =>
          \/ lastEvent' \in {"clickOut", "clickEmpty", "clickSame"} /\ selectedId' = Null
          \/ lastEvent' = "clickSelect" /\ selectedId' \notin {Null, selectedId}]_vars

\* the selection outlived a hover-clear timeout
C1_Witness ==
  lastEvent = "timer" /\ selectedId # Null /\ hoveredId = Null

\* C2: an in-range click while enabled sets selectedId to null when queryAt
\* finds no hit or finds the selected id, and to the hit id otherwise.
C2_ClickSelects ==
  [][lastEvent' \in ClickSteps =>
       \A e \in ClickEvents :
         LET pos == getNormalizedPos(e)
         IN (enabled /\ pos # Null /\ handleClick(e)) =>
              LET hitId == hitTestAt(strategiesRef, pos[1], pos[2])
              IN selectedId' = IF hitId = Null \/ hitId = selectedId THEN Null ELSE hitId]_vars

\* a click replaced one selection by another
C2_Witness ==
  lastEvent = "clickSelect" /\ selectedId # Null

\* C3: hoveredId becomes null only when the hover-clear timeout fires, and a
\* pointer-move that hits a region leaves no timeout pending: re-entering
\* the hovered region before the timeout fires keeps hoveredId set.
C3_HoverDebounce ==
  [][/\ (hoveredId # Null /\ hoveredId' = Null) => (timerPending /\ lastEvent' = "timer")
     /\ lastEvent' = "moveReenter" => (hoveredId' = hoveredId /\ hoveredId' # Null /\ ~timerPending')]_vars

\* the pointer came back onto the hovered region while the clear was pending
C3_Witness ==
  lastEvent = "moveReenter" /\ hoveredId # Null /\ ~timerPending

\* C4: a pointer-move that hits a region sets hoveredId to the hit id in the
\* same step and leaves no hover-clear timeout pending.
C4_HoverImmediate ==
  [][lastEvent' \in HitMoves =>
       \A e \in PointerEvents :
         LET pos == getNormalizedPos(e)
         IN (enabled /\ pos # Null /\ hitTestAt(strategiesRef, pos[1], pos[2]) # Null
               /\ handlePointerMove(e)) =>
              (hoveredId' = hitTestAt(strategiesRef, pos[1], pos[2]) /\ ~timerPending')]_vars

\* hover moved from one region straight to another
C4_Witness ==
  lastEvent = "moveSwitch" /\ hoveredId # Null /\ ~timerPending

\* C5: queryAt returns the id of the last strategy of the published list
\* that contains the point, and null when none does.
C5_TopmostWins ==
  \A p \in GridPoints :
    hitTestAt(strategiesRef, p[1], p[2]) = TopmostHit(strategiesRef, p[1], p[2])

\* two published strategies contain the same point
C5_Witness ==
  \E p \in GridPoints : Cardinality(HitIndexes(strategiesRef, p[1], p[2])) >= 2

\* what a build of the definitions defs publishes once every prepare() resolved
PreparedStrategy(def) ==
  LET strategy == createHitTestStrategy(def, clampThreshold)
  IN IF HasPrepare(strategy) THEN prepare(strategy) ELSE strategy
PreparedSet(defs) == [i \in 1..Len(defs) |-> PreparedStrategy(defs[i])]
PreparedBounds(defs) ==
  [id \in {defs[i].id : i \in 1..Len(defs)} |-> PreparedStrategy(MapGet(defs, id)).bounds]

\* an image strategy whose image did not decode or whose pixels cannot be read
FailedImage(s) ==
  /\ s.type = "image"
  /\ LET img == ImageSource(s.src)
     IN img.naturalWidth <= 0 \/ img.naturalHeight <= 0 \/ ~img.context \/ ~img.readable

StrategyIds(strategies) == [i \in 1..Len(strategies) |-> strategies[i].id]

\* the definitions of the builds that can publish in the next step: the
\* build the pending effect starts and the live builds that are suspended
PublishingDefs == {cutoutMap} \cup {w.defs : w \in LiveBuilds(builds)}

\* the bounds map the hook has published last: the one passed to
\* setBoundsMap() if it still waits for its render, the rendered one otherwise
LatestBounds == IF queuedBounds # <<>> THEN queuedBounds[1] ELSE boundsMap

\* C6: the prepare() of an image that fails to decode or to be read still
\* resolves; the published strategy keeps the bounds {0,0,1,1}, in the
\* bounds map published with it too, and hits nowhere; and the build it is
\* part of publishes every sibling, each of which still answers hits.
C6_UnreadableImageIsInert ==
  /\ \A w \in BagToSet(builds) : prepareOutcome(w.cur) = "resolved"
  /\ \A i \in 1..Len(strategiesRef) :
       FailedImage(strategiesRef[i]) =>
         /\ strategiesRef[i].bounds = FullBounds
         /\ strategiesRef[i].id \in DOMAIN LatestBounds
         /\ LatestBounds[strategiesRef[i].id] = FullBounds
         /\ \A p \in GridPoints : ~hitTest(strategiesRef[i], p[1], p[2])
         /\ \A j \in 1..Len(strategiesRef) :
              ~FailedImage(strategiesRef[j]) =>
                \E p \in GridPoints :
                  hitTestAt(strategiesRef, p[1], p[2]) = strategiesRef[j].id
  /\ (mounted /\ enabled /\ ~effectPending /\ LiveBuilds(builds) = {}) =>
       StrategyIds(strategiesRef) = StrategyIds(cutoutMap)

C6_Witness ==
  /\ enabled
  /\ lastEvent = "preparePublish"
  /\ \E i, j \in 1..Len(strategiesRef) :
       /\ FailedImage(strategiesRef[i])
       /\ ~FailedImage(strategiesRef[j])
       /\ \E p \in GridPoints : hitTestAt(strategiesRef, p[1], p[2]) = strategiesRef[j].id

\* C7: when a prepare() resolves whose region has been unregistered, or
\* while the viewer is disabled, the step changes neither the published
\* strategy set nor the bounds map, and passes no bounds to setBoundsMap.
C7_StalePrepareIsDropped ==
  [][\A w \in BagToSet(builds) :
       ((~enabled \/ ~MapHas(cutoutMap, w.cur.id)) /\ PrepareResolved(w)) =>
         UNCHANGED <<strategiesRef, boundsMap, queuedBounds>>]_vars

\* C8: the strategy list changes only as a whole: to the complete prepared
\* set of the build that publishes, whose bounds go to setBoundsMap in the
\* same step, or to the empty list in the effect of the disabled viewer;
\* the bounds map changes only to a map that was published as a whole; and
\* a step that leaves a build of the enabled viewer waiting for a prepare()
\* leaves the strategy list as it was.
C8_AtomicPublish ==
  [][/\ strategiesRef' # strategiesRef =>
          \/ ~enabled' /\ lastEvent' = "effect" /\ strategiesRef' = <<>>
                /\ UNCHANGED <<boundsMap, queuedBounds>>
          \/ /\ lastEvent' \in {"effect", "preparePublish"}
             /\ \E defs \in PublishingDefs :
                  /\ strategiesRef' = PreparedSet(defs)
                  /\ queuedBounds' = <<PreparedBounds(defs)>>
     /\ queuedBounds' # queuedBounds =>
          \/ queuedBounds' = <<>>
          \/ \E defs \in PublishingDefs :
               /\ strategiesRef' = PreparedSet(defs)
               /\ queuedBounds' = <<PreparedBounds(defs)>>
     /\ boundsMap' # boundsMap => (queuedBounds # <<>> /\ boundsMap' = queuedBounds[1])
     /\ (enabled' /\ LiveBuilds(builds') # {}) => UNCHANGED strategiesRef]_vars

C8_Witness ==
  /\ enabled
  /\ ~effectPending
  /\ strategiesRef # <<>>
  /\ \E w \in LiveBuilds(builds) :
       /\ Len(w.strategies) >= 1
       /\ StrategyIds(strategiesRef) # StrategyIds(w.defs)
  /\ \E p \in GridPoints : hitTestAt(strategiesRef, p[1], p[2]) # Null

\* C9: registering a definition under an id whose registered definition
\* serializes identically changes neither the registry, as rendered and as
\* the calls made so far leave it, nor the published strategies and bounds;
\* it schedules no run of the build effect and leaves every outstanding
\* build as it is.
C9_ReRegisterNoop ==
  [][lastEvent' \in {"register", "registerNoop"} =>
       \A d \in MixedPool :
         (/\ MapHas(queuedMap, d.id)
          /\ serializeDefinition(MapGet(queuedMap, d.id)) = serializeDefinition(d)
          /\ Register(d)) =>
           UNCHANGED <<cutoutMap, queuedMap, strategiesRef, boundsMap, queuedBounds, effectPending, builds>>]_vars

\* a registration was dropped while a build waits for a prepare(), the
\* registry holding a definition that another one serializes like
C9_Witness ==
  /\ lastEvent = "registerNoop"
  /\ LiveBuilds(builds) # {}
  /\ \E d \in MixedPool : MapHas(queuedMap, d.id) /\ MapGet(queuedMap, d.id) # d
                            /\ serializeDefinition(MapGet(queuedMap, d.id)) = serializeDefinition(d)

\* C10: a step that disables the viewer leaves hoveredId and selectedId
\* null and no hover-clear timer pending.
C10_DisableClears ==
  [][(enabled /\ ~enabled') =>
       (hoveredId' = Null /\ selectedId' = Null /\ ~timerPending')]_vars

\* C11: activeId is selectedId when that is non-null, and hoveredId otherwise.
C11_ActiveId ==
  /\ selectedId # Null => activeId = selectedId
  /\ selectedId = Null => activeId = hoveredId

C11_Witness ==
  /\ selectedId # Null
  /\ hoveredId \notin {Null, selectedId}
  /\ activeId = selectedId

(***************************************************************************)
(* The pure geometry functions, called on their own: a state is one call   *)
(* (the arguments) and, once the call has run, its result.                 *)
(***************************************************************************)
\* the grid of the doubles j / 2^GridBits of [0, 1]
GridBits == 5

\* the grid, and the doubles next to 0.25, 0.5 and 0.75 on either side
Floats01 ==
  { FNearest(j, 2 ^ GridBits) : j \in 0..(2 ^ GridBits) }
    \cup { FBelow(FNearest(j, 4)) : j \in 1..3 }
    \cup { FAbove(FNearest(j, 4)) : j \in 1..3 }

\* circles at (0.5, 0.5) of radius 0.25 and at (0.25, 0.5) of radius 0.1875
FnCircles ==
  { [cx |-> FNearest(1, 2), cy |-> FNearest(1, 2), radius |-> FNearest(1, 4)],
    [cx |-> FNearest(1, 4), cy |-> FNearest(1, 2), radius |-> FNearest(3, 16)] }

\* strategies of the four variants, each as the build leaves it
FnGridStrategies ==
  { prepare(ImageHitTestStrategy(ImageDef("a", "ok.png", Undefined), clampThreshold)),
    prepare(ImageHitTestStrategy(ImageDef("a", "cors.png", Undefined), clampThreshold)),
    RectHitTestStrategy(BBoxDef("b", [x |-> 1, y |-> 1, w |-> 2, h |-> 2], Undefined)),
    PolygonHitTestStrategy(PolygonDef("p", <<<<1, 1>>, <<3, 1>>, <<2, 3>>>>, Undefined)),
    PolygonHitTestStrategy(PolygonDef("p", <<>>, Undefined)) }
FnCircleStrategies ==
  { createHitTestStrategy(CircleDef("c", c, Undefined), clampThreshold) : c \in FnCircles }

\* calls of hitTest: in Unit scale on the image, box and polygon
\* strategies, with doubles on the circles
HitTestCalls ==
  { [fn |-> "hitTest", strategy |-> s, nx |-> q[1], ny |-> q[2]] :
      s \in FnGridStrategies, q \in GridPoints }
CircleHitTestCalls ==
  { [fn |-> "hitTestCircle", strategy |-> s, at |-> q] :
      s \in FnCircleStrategies, q \in Floats01 \X Floats01 }

\* alpha buffers: every small buffer over a few alpha values around the
\* threshold, and the 4x4 buffers with one opaque pixel
AlphaValues == {0, alphaThreshold, alphaThreshold + 1, 255}
SmallSizes == {<<1, 1>>, <<2, 1>>, <<1, 2>>, <<2, 2>>}
OnePixel(w, h, k) == [i \in 1..(w * h) |-> IF i = k THEN 255 ELSE 0]
ComputeBoundsCalls ==
  { [fn |-> "computeBoundsFromAlpha", alpha |-> a, w |-> z[1], h |-> z[2],
     threshold |-> clampThreshold] :
      z \in SmallSizes, a \in UNION { [1..(y[1] * y[2]) -> AlphaValues] : y \in SmallSizes } }
  \cup
  { [fn |-> "computeBoundsFromAlpha", alpha |-> OnePixel(Unit, Unit, k), w |-> Unit,
     h |-> Unit, threshold |-> clampThreshold] : k \in 1..(Unit * Unit) }

\* polygons in Unit scale: the unit square, a triangle, an L shape, a
\* two-point and an empty polygon; points in and around the unit square
UnitSquare == <<<<0, 0>>, <<Unit, 0>>, <<Unit, Unit>>, <<0, Unit>>>>
FnPolygons ==
  { UnitSquare,
    <<<<1, 1>>, <<3, 1>>, <<2, 3>>>>,
    <<<<0, 0>>, <<4, 0>>, <<4, 2>>, <<2, 2>>, <<2, 4>>, <<0, 4>>>>,
    <<<<1, 1>>, <<3, 3>>>>,
    <<>> }
FnPolygonPoints == (-1..(Unit + 2)) \X (-1..(Unit + 2))
PointInPolygonCalls ==
  { [fn |-> "pointInPolygon", px |-> q[1], py |-> q[2], points |-> pts] :
      q \in FnPolygonPoints, pts \in FnPolygons }

\* degenerate geometry: circles of radius zero and below, the polygon
\* without points, images without width or height
DegenerateCircles ==
  { [cx |-> FNearest(1, 2), cy |-> FNearest(1, 2), radius |-> Zero],
    [cx |-> FNearest(1, 2), cy |-> FNearest(1, 2), radius |-> FNearest(-1, 4)],
    [cx |-> FNearest(1, 4), cy |-> FNearest(1, 2), radius |-> FNearest(-1, 8)] }
DegenerateCircleStrategies ==
  { createHitTestStrategy(CircleDef("c", c, Undefined), clampThreshold) :
      c \in DegenerateCircles }
DegenerateImages == {"missing.png", "flat.png"}
DegenerateGridStrategies ==
  { PolygonHitTestStrategy(PolygonDef("p", <<>>, Undefined)) }
    \cup { prepare(ImageHitTestStrategy(ImageDef("a", src, Undefined), clampThreshold)) :
             src \in DegenerateImages }

DegenerateHitTestCalls ==
  { [fn |-> "hitTest", strategy |-> s, nx |-> q[1], ny |-> q[2]] :
      s \in DegenerateGridStrategies, q \in FnPolygonPoints }
DegenerateCircleCalls ==
  { [fn |-> "hitTestCircle", strategy |-> s, at |-> q] :
      s \in DegenerateCircleStrategies, q \in Floats01 \X Floats01 }

FnCalls ==
  HitTestCalls \cup CircleHitTestCalls
    \cup { c \in ComputeBoundsCalls : Len(c.alpha) = c.w * c.h }
    \cup PointInPolygonCalls \cup DegenerateHitTestCalls \cup DegenerateCircleCalls

ApplyPointInPolygon ==
  /\ fnCall.fn = "pointInPolygon"
  /\ ~fnResult.done
  /\ fnResult' = [done |-> TRUE,
                  value |-> pointInPolygon(fnCall.px, fnCall.py, fnCall.points)]
  /\ UNCHANGED <<fnCall, viewerVars, drawVars, timerVars, teardownVars>>

ApplyComputeBounds ==
  /\ fnCall.fn = "computeBoundsFromAlpha"
  /\ ~fnResult.done
  /\ fnResult' = [done |-> TRUE,
                  value |-> computeBoundsFromAlpha(fnCall.alpha, fnCall.w, fnCall.h,
                                                   fnCall.threshold)]
  /\ UNCHANGED <<fnCall, viewerVars, drawVars, timerVars, teardownVars>>

ApplyHitTest ==
  /\ fnCall.fn = "hitTest"
  /\ ~fnResult.done
  /\ fnResult' = [done |-> TRUE,
                  value |-> hitTest(fnCall.strategy, fnCall.nx, fnCall.ny)]
  /\ UNCHANGED <<fnCall, viewerVars, drawVars, timerVars, teardownVars>>

\* hitTest on a circle strategy, at a point given in doubles
ApplyCircleHitTest ==
  /\ fnCall.fn = "hitTestCircle"
  /\ ~fnResult.done
  /\ fnResult' = [done |-> TRUE,
                  value |-> hitTest(fnCall.strategy, fnCall.at[1], fnCall.at[2])]
  /\ UNCHANGED <<fnCall, viewerVars, drawVars, timerVars, teardownVars>>

InitFn ==
  /\ cutoutMap = <<>>
  /\ queuedMap = <<>>
  /\ enabled = TRUE
  /\ hoveredId = Null
  /\ selectedId = Null
  /\ timerPending = FALSE
  /\ strategiesRef = <<>>
  /\ boundsMap = EmptyMap
  /\ queuedBounds = <<>>
  /\ effectPending = FALSE
  /\ builds = EmptyBag
  /\ lastEvent = "mount"
  /\ fnCall \in FnCalls
  /\ fnResult = NoResult
  /\ DrawInit
  /\ TimerInit
  /\ TeardownInit

NextFn ==
  \/ ApplyHitTest
  \/ ApplyCircleHitTest
  \/ ApplyComputeBounds
  \/ ApplyPointInPolygon

SpecFn == InitFn /\ [][NextFn]_vars

\* C12: whenever hitTest(p) is true, p lies within the strategy's bounds,
\* edges included.
C12_HitInsideBounds ==
  /\ (fnCall.fn = "hitTest" /\ fnResult.done /\ fnResult.value) =>
       LET b == fnCall.strategy.bounds
       IN /\ b.x <= fnCall.nx /\ fnCall.nx <= b.x + b.w
          /\ b.y <= fnCall.ny /\ fnCall.ny <= b.y + b.h
  /\ (fnCall.fn = "hitTestCircle" /\ fnResult.done /\ fnResult.value) =>
       LET b == fnCall.strategy.bounds
       IN /\ FLeq(b.x, fnCall.at[1]) /\ FLeq(fnCall.at[1], FAdd(b.x, b.w))
          /\ FLeq(b.y, fnCall.at[2]) /\ FLeq(fnCall.at[2], FAdd(b.y, b.h))

\* the pixels (x, y) of a w-wide buffer whose alpha exceeds the threshold
VisiblePixels(alpha, w, threshold) ==
  { <<(i - 1) % w, (i - 1) \div w>> : i \in {k \in 1..Len(alpha) : alpha[k] > threshold} }
SetMin(S) == CHOOSE m \in S : \A n \in S : m <= n
SetMax(S) == CHOOSE m \in S : \A n \in S : m >= n

\* C13: computeBoundsFromAlpha returns the tight box of the pixels whose
\* alpha is strictly above the threshold, normalized by the buffer's size;
\* with no such pixel it returns {0,0,1,1}; the box never has zero width or
\* height.
C13_TightBounds ==
  (fnCall.fn = "computeBoundsFromAlpha" /\ fnResult.done) =>
    LET vis == VisiblePixels(fnCall.alpha, fnCall.w, fnCall.threshold)
        xs == {q[1] : q \in vis}
        ys == {q[2] : q \in vis}
        b == fnResult.value
    IN /\ vis = {} => b = FullBounds
       /\ vis # {} =>
            /\ b.x * fnCall.w = SetMin(xs) * Unit
            /\ b.y * fnCall.h = SetMin(ys) * Unit
            /\ b.w * fnCall.w = (SetMax(xs) - SetMin(xs) + 1) * Unit
            /\ b.h * fnCall.h = (SetMax(ys) - SetMin(ys) + 1) * Unit
       /\ b.w > 0 /\ b.h > 0

\* a 4x4 buffer with one opaque pixel, away from the origin
C13_Witness ==
  /\ fnCall.fn = "computeBoundsFromAlpha"
  /\ fnResult.done
  /\ fnCall.w = Unit /\ fnCall.h = Unit
  /\ VisiblePixels(fnCall.alpha, fnCall.w, fnCall.threshold) = {<<2, 1>>}
  /\ fnResult.value = [x |-> 2, y |-> 1, w |-> 1, h |-> 1]

\* The edges (P[j], P[i]) of the closed polygon, j the vertex before i and the
\* last vertex before the first, that the ray from (px, py) to the right
\* crosses: the edge's y-span straddles py, and px is left of the edge's
\* x-intercept xi + (xj - xi) * (py - yi) / (yj - yi).
CrossedEdges(px, py, points) ==
  { i \in 1..Len(points) :
      LET j == IF i = 1 THEN Len(points) ELSE i - 1
          xi == points[i][1]
          yi == points[i][2]
          xj == points[j][1]
          yj == points[j][2]
          d == Abs(yj - yi)
          sgn == IF yj > yi THEN 1 ELSE -1
      IN /\ (yi > py /\ ~(yj > py)) \/ (~(yi > py) /\ yj > py)
         /\ px * d < sgn * (xj - xi) * (py - yi) + xi * d }

\* C14: pointInPolygon is true exactly when the number of crossed edges is
\* odd; in the unit square (0.5, 0.5) is inside and (1.5, 0.5) is outside;
\* a horizontal edge is never a crossed edge.
C14_EvenOdd ==
  (fnCall.fn = "pointInPolygon" /\ fnResult.done) =>
    LET crossed == CrossedEdges(fnCall.px, fnCall.py, fnCall.points)
    IN /\ fnResult.value = (Cardinality(crossed) % 2 = 1)
       /\ (fnCall.points = UnitSquare /\ fnCall.px = Unit \div 2 /\ fnCall.py = Unit \div 2)
            => fnResult.value
       /\ (fnCall.points = UnitSquare /\ fnCall.px = Unit + Unit \div 2
             /\ fnCall.py = Unit \div 2) => ~fnResult.value
       /\ \A i \in crossed :
            fnCall.points[i][2] # fnCall.points[IF i = 1 THEN Len(fnCall.points) ELSE i - 1][2]

\* the centre of the unit square: one crossed edge, one horizontal edge above
C14_Witness ==
  /\ fnCall.fn = "pointInPolygon"
  /\ fnResult.done
  /\ fnCall.points = UnitSquare
  /\ fnCall.px = Unit \div 2 /\ fnCall.py = Unit \div 2
  /\ fnResult.value
  /\ Cardinality(CrossedEdges(fnCall.px, fnCall.py, fnCall.points)) = 1

(***************************************************************************)
(* The drawing hook on its own                                             *)
(***************************************************************************)
InitDraw ==
  /\ cutoutMap = <<>>
  /\ queuedMap = <<>>
  /\ enabled = TRUE
  /\ hoveredId = Null
  /\ selectedId = Null
  /\ timerPending = FALSE
  /\ strategiesRef = <<>>
  /\ boundsMap = EmptyMap
  /\ queuedBounds = <<>>
  /\ effectPending = FALSE
  /\ builds = EmptyBag
  /\ lastEvent = "mount"
  /\ fnCall = NoCall
  /\ fnResult = NoResult
  /\ DrawInit
  /\ TimerInit
  /\ TeardownInit

NextDraw ==
  \/ (\E e \in DrawEvents : DrawClick(e)) /\ UNCHANGED <<viewerVars, fnVars, timerVars, teardownVars>>
  \/ (\E e \in DrawEvents : DrawSecondClick(e)) /\ UNCHANGED <<viewerVars, fnVars, timerVars, teardownVars>>
  \/ DrawDoubleClick /\ UNCHANGED <<viewerVars, fnVars, timerVars, teardownVars>>
  \/ DrawContextMenu /\ UNCHANGED <<viewerVars, fnVars, timerVars, teardownVars>>
  \/ (\E e \in DrawMoves : DrawPointerMove(e)) /\ UNCHANGED <<viewerVars, fnVars, timerVars, teardownVars>>
  \/ DrawPointerLeave /\ UNCHANGED <<viewerVars, fnVars, timerVars, teardownVars>>
  \/ reset /\ UNCHANGED <<viewerVars, fnVars, timerVars, teardownVars>>

SpecDraw == InitDraw /\ [][NextDraw]_vars

\* the distance of p and q is below closeThreshold: the numbers the doubles
\* stand for compared without rounding, both sides squared
ExactSquare(x) == ExactMul(x, x)
WithinClose(p, q) ==
  ExactLess(ExactAdd(ExactSquare(ExactSub(p[1], q[1])), ExactSquare(ExactSub(p[2], q[2]))),
            ExactSquare(closeThreshold))

\* C15: a click at an in-range position appends that position as one new
\* vertex, unless at least minPoints vertices are drawn and the click is
\* within closeThreshold of the first: then onComplete is called once with
\* the vertices drawn so far and the list becomes empty.
C15_ClickAddsOrCloses ==
  [][(gesture'.stage \in {1, 2} /\ gesture'.pos # NoPoint) =>
       IF Len(drawPoints) >= minPoints /\ WithinClose(gesture'.pos, drawPoints[1])
       THEN /\ completions' = <<drawPoints>>
            /\ drawPoints' = <<>>
       ELSE /\ drawPoints' = Append(drawPoints, gesture'.pos)
            /\ completions' = <<>>]_vars

\* a click next to the first vertex, not on it, has just snap-closed a
\* polygon of at least minPoints vertices
C15_Witness ==
  /\ gesture.stage = 1
  /\ gesture.pos # NoPoint
  /\ Len(gesture.before) >= minPoints
  /\ gesture.pos # gesture.before[1]
  /\ WithinClose(gesture.pos, gesture.before[1])
  /\ drawPoints = <<>>
  /\ completions = <<gesture.before>>

\* C16: after click, click, dblclick at a position p that is not within
\* closeThreshold of the first vertex, with the vertices `before` drawn
\* before it: if before plus p has at least minPoints vertices, onComplete
\* was called exactly once, by the dblclick and with before followed by p,
\* and the list is empty; otherwise onComplete was not called and the list
\* is before followed by a single p.
C16_DoubleClickCompletes ==
  (/\ gesture.stage = 3
   /\ gesture.pos # NoPoint
   /\ Len(gesture.before) >= 1 => ~WithinClose(gesture.pos, gesture.before[1])) =>
    /\ gesture.calls = 0
    /\ IF Len(gesture.before) + 1 >= minPoints
       THEN /\ completions = <<Append(gesture.before, gesture.pos)>>
            /\ drawPoints = <<>>
       ELSE /\ completions = <<>>
            /\ drawPoints = Append(gesture.before, gesture.pos)

\* a double-click away from the first vertex, on a list long enough for a
\* click near the first vertex to close it, has completed the polygon with
\* its own position as last vertex
C16_Witness ==
  /\ gesture.stage = 3
  /\ gesture.pos # NoPoint
  /\ Len(gesture.before) >= minPoints
  /\ ~WithinClose(gesture.pos, gesture.before[1])
  /\ gesture.calls = 0
  /\ completions = <<Append(gesture.before, gesture.pos)>>
  /\ drawPoints = <<>>

(***************************************************************************)
(* The pointer handlers of a mounted, enabled viewer with the clock        *)
(***************************************************************************)
\* the viewer after an image and a box have registered and the build of
\* their strategies has published
TimerDefs ==
  registerCutout(registerCutout(<<>>, ImageDef("a", "ok.png", Undefined)),
                 BBoxDef("b", [x |-> 1, y |-> 1, w |-> 2, h |-> 2], Undefined))

InitTimer ==
  /\ cutoutMap = TimerDefs
  /\ queuedMap = TimerDefs
  /\ enabled = TRUE
  /\ hoveredId = Null
  /\ selectedId = Null
  /\ timerPending = FALSE
  /\ strategiesRef = PreparedSet(TimerDefs)
  /\ boundsMap = PreparedBounds(TimerDefs)
  /\ queuedBounds = <<>>
  /\ effectPending = FALSE
  /\ builds = EmptyBag
  /\ lastEvent = "mount"
  /\ fnCall = NoCall
  /\ fnResult = NoResult
  /\ DrawInit
  /\ TimerInit
  /\ TeardownInit

NextTimer ==
  \/ (\E e \in PointerEvents : TimedPointerMove(e)) /\ UNCHANGED <<fnVars, drawVars, teardownVars>>
  \/ TimedPointerLeave /\ UNCHANGED <<fnVars, drawVars, teardownVars>>
  \/ (\E e \in ClickEvents : TimedClick(e)) /\ UNCHANGED <<fnVars, drawVars, teardownVars>>
  \/ TimedHoverClearTimeout /\ UNCHANGED <<fnVars, drawVars, teardownVars>>
  \/ SetEnabled /\ UNCHANGED <<fnVars, drawVars, timerVars, teardownVars>>
  \/ BuildEffect /\ UNCHANGED <<fnVars, drawVars, timerVars, teardownVars>>
  \/ Render /\ UNCHANGED <<fnVars, drawVars, timerVars, teardownVars>>
  \/ (\E w \in BagToSet(builds) : PrepareResolved(w)) /\ UNCHANGED <<fnVars, drawVars, timerVars, teardownVars>>
  \/ Tick /\ UNCHANGED <<fnVars, drawVars, teardownVars>>

SpecTimer == InitTimer /\ [][NextTimer]_vars

\* a run of no-hit events is under way: no hit, overlay move or timeout yet
RunOpen ==
  noHit.first # NoTime /\ noHit.clearedAt = NoTime /\ noHit.cancelledAt = NoTime

\* C17, as the code has it: at most one hover-clear timeout is pending, and
\* it is the one set at the first no-hit event (pointer-leave, out-of-range
\* or missing move) of the current run: later no-hit events leave its due
\* time, the time of that first event plus hoverLeaveDelay, alone; until
\* its callback runs hoveredId keeps its value, and the callback, which
\* clears hoveredId, runs at the due time or later, never before.
C17_FirstEventSetsTimer ==
  /\ Cardinality(timers) <= 1
  /\ \A x \in timers :
       RunOpen /\ x.id = timerRef /\ x.due = noHit.first + hoverLeaveDelay
  /\ RunOpen => /\ timers # {}
                /\ hoveredId = noHit.hovered
  /\ noHit.clearedAt # NoTime =>
       noHit.clearedAt >= noHit.first + hoverLeaveDelay /\ hoveredId = Null

\* the timeout cleared a hovered id after a run of no-hit events that went
\* on after its first event, the last of them after the timeout was due
C17_Witness ==
  /\ lastEvent = "timer"
  /\ noHit.hovered # Null
  /\ noHit.last > noHit.first + hoverLeaveDelay
  /\ noHit.clearedAt >= noHit.last
  /\ timers = {}
  /\ hoveredId = Null

\* C17 as claimed: at most one hover-clear timeout is pending, set at the
\* first no-hit event of the run and left alone by the later ones, and
\* hoveredId is cleared exactly hoverLeaveDelay after that first event.
C17_SingleTimer ==
  /\ Cardinality(timers) <= 1
  /\ \A x \in timers :
       RunOpen /\ x.id = timerRef /\ x.due = noHit.first + hoverLeaveDelay
  /\ RunOpen => /\ timers # {}
                /\ now <= noHit.first + hoverLeaveDelay
                /\ hoveredId = noHit.hovered
  /\ noHit.clearedAt # NoTime =>
       noHit.clearedAt = noHit.first + hoverLeaveDelay /\ hoveredId = Null

\* C18: a pointer-move that hits no region while its target is inside an
\* overlay element leaves no hover-clear timeout pending and changes
\* neither hoveredId nor selectedId, so no timeout can clear hoveredId
\* before the next pointer event.
C18_OverlayKeepsHover ==
  [][lastEvent' = "moveOverlay" =>
       \A e \in PointerEvents :
         (e.overlay /\ TimedPointerMove(e)) =>
           /\ timers' = {}
           /\ timerRef' = NoTimer
           /\ ~timerPending'
           /\ hoveredId' = hoveredId
           /\ selectedId' = selectedId]_vars

\* an overlay move has cancelled the timeout that was about to clear the
\* hovered id
C18_Witness ==
  /\ lastEvent = "moveOverlay"
  /\ noHit.cancelledAt # NoTime
  /\ noHit.cancelledAt > noHit.first
  /\ noHit.hovered # Null
  /\ hoveredId = noHit.hovered
  /\ timers = {}

\* pointer events whose position is outside of the container
OutEvents == { e \in PointerEvents : <<e.clientX, e.clientY>> \in OutsidePoints }

\* what a pointer-leave does: it sets the hover-clear timeout if none is
\* pending and changes neither hoveredId nor selectedId
LeaveEffect ==
  /\ IF timers = {}
     THEN timers' = {[id |-> timerRef', due |-> now + hoverLeaveDelay]}
     ELSE timers' = timers /\ timerRef' = timerRef
  /\ timerPending'
  /\ hoveredId' = hoveredId
  /\ selectedId' = selectedId
  /\ UNCHANGED <<cutoutMap, queuedMap, enabled, strategiesRef, boundsMap, queuedBounds, effectPending, builds, now>>

\* C19, as the code has it: while the viewer is enabled a pointer-move
\* outside of the container does what a pointer-leave does, and a click
\* outside of it clears selectedId and touches neither hoveredId nor the
\* hover-clear timeout.
C19_OutsideMoveIsLeave ==
  [][/\ TimedPointerLeave => LeaveEffect
     /\ \A e \in OutEvents :
          /\ (enabled /\ TimedPointerMove(e)) => LeaveEffect
          /\ (enabled /\ TimedClick(e)) =>
                /\ selectedId' = Null
                /\ UNCHANGED <<hoveredId, timerPending, timers, timerRef>>]_vars

\* a move outside of the container has set the timeout for a hovered and
\* selected region
C19_Witness ==
  /\ lastEvent = "moveOut"
  /\ hoveredId # Null
  /\ selectedId # Null
  /\ noHit.first = now
  /\ noHit.last = now
  /\ timerPending
  /\ timers = {[id |-> timerRef, due |-> now + hoverLeaveDelay]}

\* C19 as claimed: every pointer event outside of the container, move or
\* click, does what a pointer-leave does.
C19_OutsideEventIsLeave ==
  [][\A e \in OutEvents :
       (TimedPointerMove(e) \/ TimedClick(e)) => LeaveEffect]_vars

(***************************************************************************)
(* The build effect with its cleanup, and the unmount of the viewer        *)
(***************************************************************************)
\* `builtStrategies` of the effect run whose cleanup is about to run: what
\* that run has published, and the empty list while its build is in flight;
\* a disabled run returns no cleanup and has left strategiesRef empty
builtStrategies ==
  IF LiveBuilds(builds) = {} THEN strategiesRef ELSE <<>>

\* variant: the cleanup also goes through the strategies its build has
\* created so far
CleanupCalls_InFlight ==
  IF LiveBuilds(builds) = {} THEN strategiesRef
  ELSE LET b == CHOOSE w \in LiveBuilds(builds) : TRUE
       IN Append(b.strategies, b.cur)

\* the cleanup of the build effect: `for (const s of builtStrategies)
\* s.dispose?.()`
CleanupCalls == builtStrategies

TeardownRegister(def) ==
  /\ mounted
  /\ Register(def)
  /\ disposeCalls' = <<>>
  /\ UNCHANGED mounted

TeardownUnregister(id) ==
  /\ mounted
  /\ Unregister(id)
  /\ disposeCalls' = <<>>
  /\ UNCHANGED mounted

TeardownSetEnabled ==
  /\ mounted
  /\ SetEnabled
  /\ disposeCalls' = <<>>
  /\ UNCHANGED mounted

\* the build effect runs: the cleanup of its previous run makes its calls
TeardownBuildEffect ==
  /\ mounted
  /\ BuildEffect
  /\ disposeCalls' = CleanupCalls
  /\ UNCHANGED mounted

TeardownRender ==
  /\ mounted
  /\ Render
  /\ disposeCalls' = <<>>
  /\ UNCHANGED mounted

\* a prepare() resolves, also after the unmount
TeardownPrepareResolved(w) ==
  /\ PrepareResolved(w)
  /\ disposeCalls' = <<>>
  /\ UNCHANGED mounted

\* the viewer unmounts: effects that are pending run first, then the
\* cleanups of the effects
Unmount ==
  /\ mounted
  /\ ~effectPending
  /\ mounted' = FALSE
  /\ BagCardinality(builds) <= MaxStale
  /\ builds' = CancelAll(builds)
  /\ disposeCalls' = CleanupCalls
  /\ timerPending' = cancelHoverClear(timerPending)
  /\ lastEvent' = "unmount"
  /\ UNCHANGED <<cutoutMap, queuedMap, enabled, hoveredId, selectedId, strategiesRef, boundsMap,
                 queuedBounds, effectPending>>

NextTeardown ==
  \/ (\E def \in Pool : TeardownRegister(def)) /\ UNCHANGED <<fnVars, drawVars, timerVars>>
  \/ (\E id \in Ids : TeardownUnregister(id)) /\ UNCHANGED <<fnVars, drawVars, timerVars>>
  \/ TeardownSetEnabled /\ UNCHANGED <<fnVars, drawVars, timerVars>>
  \/ TeardownBuildEffect /\ UNCHANGED <<fnVars, drawVars, timerVars>>
  \/ TeardownRender /\ UNCHANGED <<fnVars, drawVars, timerVars>>
  \/ (\E w \in BagToSet(builds) : TeardownPrepareResolved(w)) /\ UNCHANGED <<fnVars, drawVars, timerVars>>
  \/ Unmount /\ UNCHANGED <<fnVars, drawVars, timerVars>>

SpecTeardown == Init /\ [][NextTeardown]_vars

\* the same viewer with an image and a box as children
NextMixed ==
  \/ (\E def \in MixedPool : TeardownRegister(def)) /\ UNCHANGED <<fnVars, drawVars, timerVars>>
  \/ (\E id \in Ids : TeardownUnregister(id)) /\ UNCHANGED <<fnVars, drawVars, timerVars>>
  \/ TeardownSetEnabled /\ UNCHANGED <<fnVars, drawVars, timerVars>>
  \/ TeardownBuildEffect /\ UNCHANGED <<fnVars, drawVars, timerVars>>
  \/ TeardownRender /\ UNCHANGED <<fnVars, drawVars, timerVars>>
  \/ (\E w \in BagToSet(builds) : TeardownPrepareResolved(w)) /\ UNCHANGED <<fnVars, drawVars, timerVars>>
  \/ Unmount /\ UNCHANGED <<fnVars, drawVars, timerVars>>

SpecMixed == Init /\ [][NextMixed]_vars

Range(seq) == {seq[i] : i \in 1..Len(seq)}

\* the strategies createHitTestStrategy has made for the effect run in
\* force: the published ones, or those of its build in flight together
\* with the one being prepared
CreatedForActiveSet ==
  IF LiveBuilds(builds) = {} THEN Range(strategiesRef)
  ELSE UNION { Range(b.strategies) \cup {b.cur} : b \in LiveBuilds(builds) }

\* C20: when the viewer is disabled or unmounted, dispose() is called on
\* every strategy created for the active set, those of a build in flight
\* included, and the published bounds map is empty while the viewer is
\* disabled.
C20_TeardownDisposesAll ==
  [][/\ (TeardownBuildEffect /\ ~enabled) \/ Unmount =>
          \A s \in CreatedForActiveSet : s \in Range(disposeCalls')
     /\ ~enabled' => effectiveBoundsMap' = EmptyMap]_vars

(***************************************************************************)
(* The registry under sequences of registerCutout / unregisterCutout       *)
(* calls; fnCall keeps the calls made so far.                              *)
(***************************************************************************)
\* at most this many registry calls are made
MaxCalls == 4

\* definitions that the viewer's children register, of the types its
\* BBoxCutout and PolygonCutout components pass to registerCutout: two
\* boxes that share an id, two polygons that share another; none of them
\* needs a prepare()
RegistryPool ==
  { BBoxDef("b", [x |-> 1, y |-> 1, w |-> 2, h |-> 2], Undefined),
    BBoxDef("b", [x |-> 0, y |-> 0, w |-> 2, h |-> 2], Undefined),
    PolygonDef("p", <<<<1, 1>>, <<3, 1>>, <<2, 3>>>>, Undefined),
    PolygonDef("p", <<<<0, 0>>, <<2, 0>>, <<2, 2>>, <<0, 2>>>>, Undefined) }
RegistryIds == {d.id : d \in RegistryPool}

LoggedRegister(def) ==
  /\ Len(fnCall.log) < MaxCalls
  /\ Register(def)
  /\ fnCall' = [fnCall EXCEPT !.log = Append(@, [op |-> "register", id |-> def.id, def |-> def])]
  /\ UNCHANGED <<fnResult, drawVars, timerVars, teardownVars>>

LoggedUnregister(id) ==
  /\ Len(fnCall.log) < MaxCalls
  /\ Unregister(id)
  /\ fnCall' = [fnCall EXCEPT !.log = Append(@, [op |-> "unregister", id |-> id, def |-> Null])]
  /\ UNCHANGED <<fnResult, drawVars, timerVars, teardownVars>>

InitRegistry ==
  /\ cutoutMap = <<>>
  /\ queuedMap = <<>>
  /\ enabled = TRUE
  /\ hoveredId = Null
  /\ selectedId = Null
  /\ timerPending = FALSE
  /\ strategiesRef = <<>>
  /\ boundsMap = EmptyMap
  /\ queuedBounds = <<>>
  /\ effectPending = FALSE
  /\ builds = EmptyBag
  /\ lastEvent = "mount"
  /\ fnCall = [fn |-> "registry", log |-> <<>>]
  /\ fnResult = NoResult
  /\ DrawInit
  /\ TimerInit
  /\ TeardownInit

NextRegistry ==
  \/ \E def \in RegistryPool : LoggedRegister(def)
  \/ \E id \in RegistryIds : LoggedUnregister(id)
  \/ BuildEffect /\ UNCHANGED <<fnVars, drawVars, timerVars, teardownVars>>
  \/ Render /\ UNCHANGED <<fnVars, drawVars, timerVars, teardownVars>>

SpecRegistry == InitRegistry /\ [][NextRegistry]_vars

\* the calls of the log that are about id, and the registration of id
\* that put it where it is: the first one after its last unregistration
CallsAbout(log, id) == {k \in 1..Len(log) : log[k].id = id}
LastCall(log, id) == CHOOSE k \in CallsAbout(log, id) : \A j \in CallsAbout(log, id) : j <= k
EntryCall(log, id) ==
  CHOOSE k \in CallsAbout(log, id) :
    /\ \A j \in CallsAbout(log, id) : j >= k => log[j].op = "register"
    /\ \A j \in CallsAbout(log, id) : j < k => \E i \in CallsAbout(log, id) : j <= i /\ i < k /\ log[i].op = "unregister"

\* C21: after the calls made so far the registry holds one definition per
\* id, for exactly the ids whose last call was a registration, each with
\* the definition registered last, in the order of the registrations that
\* entered the ids since their last unregistration; a render shows that
\* registry, and the strategy list queryAt uses is in the order of the
\* rendered registry once the build effect has run.
C21_RegistryLastWins ==
  fnCall.fn = "registry" =>
    LET log == fnCall.log
    IN /\ \A i, j \in 1..Len(queuedMap) : queuedMap[i].id = queuedMap[j].id => i = j
       /\ \A id \in RegistryIds :
            MapHas(queuedMap, id) <=>
              (CallsAbout(log, id) # {} /\ log[LastCall(log, id)].op = "register")
       /\ \A i \in 1..Len(queuedMap) :
            queuedMap[i] = log[LastCall(log, queuedMap[i].id)].def
       /\ \A i, j \in 1..Len(queuedMap) :
            i < j => EntryCall(log, queuedMap[i].id) < EntryCall(log, queuedMap[j].id)
       /\ lastEvent = "render" => cutoutMap = queuedMap
       /\ ~effectPending => StrategyIds(strategiesRef) = StrategyIds(cutoutMap)

\* a changed definition was registered for the id that was registered
\* first, after a second id had been registered and with no call
\* unregistering anything: the registry holds the changed definition in
\* the first place, it has been rendered and the strategies are built
C21_Witness ==
  /\ fnCall.fn = "registry"
  /\ \A n \in 1..Len(fnCall.log) : fnCall.log[n].op = "register"
  /\ \E i, j, k \in 1..Len(fnCall.log) :
       /\ i < j /\ j < k
       /\ fnCall.log[i].id = fnCall.log[k].id
       /\ fnCall.log[i].def # fnCall.log[k].def
       /\ fnCall.log[j].id # fnCall.log[i].id
       /\ LastCall(fnCall.log, fnCall.log[i].id) = k
       /\ Len(queuedMap) = 2
       /\ queuedMap[1] = fnCall.log[k].def
       /\ queuedMap[2].id = fnCall.log[j].id
       /\ cutoutMap = queuedMap
       /\ ~effectPending
       /\ StrategyIds(strategiesRef) = <<fnCall.log[i].id, fnCall.log[j].id>>

\* the ids the registry holds
RegisteredIds == {cutoutMap[i].id : i \in 1..Len(cutoutMap)}

\* C22: hoveredId, selectedId and activeId are each null or the id of a
\* region that is registered.
C22_IdsAreRegistered ==
  /\ hoveredId \in {Null} \cup RegisteredIds
  /\ selectedId \in {Null} \cup RegisteredIds
  /\ activeId \in {Null} \cup RegisteredIds

\* C23: while the viewer is enabled the keys of the published bounds map
\* are the ids of the strategy list that hitTestAt consults.
C23_BoundsMatchStrategies ==
  enabled =>
    DOMAIN effectiveBoundsMap = {strategiesRef[i].id : i \in 1..Len(strategiesRef)}

(***************************************************************************)
(* The build under the assumption that every prepare() resolves            *)
(***************************************************************************)
\* a prepare() that is awaited resolves
PrepareResolves ==
  (\E w \in BagToSet(builds) : TeardownPrepareResolved(w))
    /\ UNCHANGED <<fnVars, drawVars, timerVars>>

\* the build effect that is scheduled runs
EffectRuns == TeardownBuildEffect /\ UNCHANGED <<fnVars, drawVars, timerVars>>

\* the render that is scheduled for a setBoundsMap() happens
Renders == TeardownRender /\ UNCHANGED <<fnVars, drawVars, timerVars>>

\* Renders can happen: a setCutoutMap() or setBoundsMap() call waits for its
\* render, the effect of the previous commit has run, and the bound on the
\* stale builds lets the render schedule the effect again
RenderScheduled ==
  /\ mounted
  /\ ~effectPending
  /\ queuedMap # cutoutMap \/ queuedBounds # <<>>
  /\ EffectReruns(queuedMap, enabled) => BagCardinality(builds) <= MaxStale

\* Weak fairness of PrepareResolves, EffectRuns and Renders, WF_vars(..)
\* written out.  PrepareResolves is enabled exactly while a build awaits a
\* prepare(), and the browser fires onload or onerror for every image it
\* was given; EffectRuns and Renders are enabled while React has the effect
\* or the render scheduled, and its scheduler runs what it has scheduled.
SpecLive ==
  /\ Init
  /\ [][NextMixed]_vars
  /\ ([]<>(builds = EmptyBag) \/ []<><<PrepareResolves>>_vars)
  /\ ([]<>(~effectPending) \/ []<><<EffectRuns>>_vars)
  /\ ([]<>(~RenderScheduled) \/ []<><<Renders>>_vars)

\* the published strategies and bounds are those of the registered regions
Settled ==
  /\ strategiesRef = PreparedSet(cutoutMap)
  /\ boundsMap = PreparedBounds(cutoutMap)

\* ... and no effect, render or live build is outstanding
SettledQuiet ==
  /\ Settled
  /\ queuedMap = cutoutMap
  /\ ~effectPending
  /\ queuedBounds = <<>>
  /\ LiveBuilds(builds) = {}

\* C24: in every behaviour of the mounted, enabled viewer whose prepare()
\* calls resolve and whose registry stops changing, the strategy list comes
\* to hold the prepared strategy of every registered region, in
\* registration order, and the rendered bounds map their bounds, with
\* nothing outstanding (again and again that state holds, or the viewer is
\* disabled or unmounted, or the registry has just changed); that state
\* lasts as long as the registry and the enabled prop do; and the strategy
\* list only ever changes to the empty list or, together with the bounds
\* passed to setBoundsMap, to the complete list of one build: no region is
\* queryable before its whole build is published.
C24_BuildSettles ==
  /\ []<>(SettledQuiet \/ ~mounted \/ ~enabled \/ lastEvent \in {"register", "unregister"})
  /\ [][(SettledQuiet /\ enabled /\ enabled' /\ queuedMap' = queuedMap) => SettledQuiet']_vars
  /\ [][strategiesRef' # strategiesRef =>
          \/ strategiesRef' = <<>>
          \/ \E defs \in PublishingDefs :
               /\ strategiesRef' = PreparedSet(defs)
               /\ queuedBounds' = <<PreparedBounds(defs)>>]_vars

\* the build of an image followed by a box was published once the image
\* was prepared, and its bounds have been rendered
C24_Witness ==
  /\ lastEvent = "render"
  /\ enabled
  /\ Len(strategiesRef) = 2
  /\ strategiesRef[1].type = "image"
  /\ strategiesRef[2].type = "bbox"
  /\ SettledQuiet

(***************************************************************************)
(* alpha-contour.ts: Moore-neighbour tracing of a binary grid              *)
(***************************************************************************)
MaxCells == 9

\* 8-connected neighbour offsets, clockwise from east
MooreDx == <<1, 1, 0, -1, -1, -1, 0, 1>>
MooreDy == <<0, 1, 1, 1, 0, -1, -1, -1>>

\* grid[y * w + x] is truthy
Opaque(grid, w, x, y) == grid[y * w + x + 1] # 0

InGrid(w, h, x, y) == x >= 0 /\ x < w /\ y >= 0 /\ y < h

\* variant: the start cell is looked for column by column
RECURSIVE FirstOpaque_ColumnMajor(_, _, _, _, _)
FirstOpaque_ColumnMajor(grid, w, h, x, y) ==
  IF x >= w \/ h <= 0 THEN <<-1, -1>>
  ELSE IF y >= h THEN FirstOpaque_ColumnMajor(grid, w, h, x + 1, 0)
  ELSE IF Opaque(grid, w, x, y) THEN <<x, y>>
  ELSE FirstOpaque_ColumnMajor(grid, w, h, x, y + 1)

\* the two scan loops from (x, y) on: first opaque cell, rows top to
\* bottom and each row left to right, or <<-1, -1>>
RECURSIVE FirstOpaque(_, _, _, _, _)
FirstOpaque(grid, w, h, x, y) ==
  IF y >= h \/ w <= 0 THEN <<-1, -1>>
  ELSE IF x >= w THEN FirstOpaque(grid, w, h, 0, y + 1)
  ELSE IF Opaque(grid, w, x, y) THEN <<x, y>>
  ELSE FirstOpaque(grid, w, h, x + 1, y)

\* the inner for loop: the first direction (dir + i) % 8, i from 0, whose
\* neighbour of (cx, cy) is an opaque cell of the grid, or -1
RECURSIVE MooreScan(_, _, _, _, _, _, _)
MooreScan(grid, w, h, cx, cy, dir, i) ==
  IF i >= 8 THEN -1
  ELSE LET d == (dir + i) % 8
           nx == cx + MooreDx[d + 1]
           ny == cy + MooreDy[d + 1]
       IN IF InGrid(w, h, nx, ny) /\ Opaque(grid, w, nx, ny) THEN d
          ELSE MooreScan(grid, w, h, cx, cy, dir, i + 1)

\* the do-while loop from its top, with the reason it was left
RECURSIVE MooreWalk(_, _, _, _, _, _, _, _, _)
MooreWalk(grid, w, h, start, cx, cy, dir, iter, contour) ==
  LET pushed == Append(contour, <<cx, cy>>)
      d == MooreScan(grid, w, h, cx, cy, dir, 0)
  IN IF d = -1 THEN [contour |-> pushed, end |-> "isolated"]
     ELSE LET nx == cx + MooreDx[d + 1]
              ny == cy + MooreDy[d + 1]
          IN IF iter + 1 > w * h * 4 THEN [contour |-> pushed, end |-> "cap"]
             ELSE IF <<nx, ny>> = start THEN [contour |-> pushed, end |-> "start"]
             ELSE MooreWalk(grid, w, h, start, nx, ny, (((d + 4) % 8) + 1) % 8,
                            iter + 1, pushed)

mooreWalk(grid, w, h) ==
  LET start == FirstOpaque(grid, w, h, 0, 0)
  IN IF start[1] < 0 THEN [contour |-> <<>>, end |-> "empty"]
     ELSE MooreWalk(grid, w, h, start, start[1], start[2], 5, 0, <<>>)

mooreTrace(grid, w, h) == mooreWalk(grid, w, h).contour

\* every binary grid of at most MaxCells cells (3x3, 4x2, 9x1, ...), and the
\* empty grids with no columns or no rows
Grids(w, h) == [1..(w * h) -> {0, 1}]
GridSizes ==
  { q \in (0..MaxCells) \X (0..MaxCells) : q[1] * q[2] <= MaxCells }

MooreTraceCalls ==
  UNION { { [fn |-> "mooreTrace", grid |-> g, w |-> q[1], h |-> q[2]] :
              g \in Grids(q[1], q[2]) } : q \in GridSizes }

ApplyMooreTrace ==
  /\ fnCall.fn = "mooreTrace"
  /\ ~fnResult.done
  /\ fnResult' = [done |-> TRUE,
                  value |-> mooreTrace(fnCall.grid, fnCall.w, fnCall.h),
                  end |-> mooreWalk(fnCall.grid, fnCall.w, fnCall.h).end]
  /\ UNCHANGED <<fnCall, viewerVars, drawVars, timerVars, teardownVars>>

(***************************************************************************)
(* alpha-contour.ts: Ramer-Douglas-Peucker simplification                  *)
(* Coordinates and epsilon are integers; a distance is kept as the         *)
(* fraction num / den of its square, which the comparisons need.           *)
(***************************************************************************)
MaxPts == 4

\* perpendicularDist(p, a, b) squared, as a fraction
perpendicularDist(p, a, b) ==
  LET dx == b[1] - a[1]
      dy == b[2] - a[2]
      lenSq == dx * dx + dy * dy
      ex == p[1] - a[1]
      ey == p[2] - a[2]
      cross == Abs(dx * (a[2] - p[2]) - dy * (a[1] - p[1]))
  IN IF lenSq = 0 THEN [num |-> ex * ex + ey * ey, den |-> 1]
     ELSE [num |-> cross * cross, den |-> lenSq]

\* d > e for the distance d and the number e
DistAbove(d, e) == e < 0 \/ d.num > e * e * d.den

\* d1 > d2 for two distances
DistGreater(d1, d2) == d1.num * d2.den > d2.num * d1.den

\* the for loop of rdpSimplify from index i (0-based) on
RECURSIVE RdpMax(_, _, _, _)
RdpMax(pts, i, maxDist, maxIdx) ==
  IF i >= Len(pts) - 1 THEN [maxDist |-> maxDist, maxIdx |-> maxIdx]
  ELSE LET d == perpendicularDist(pts[i + 1], pts[1], pts[Len(pts)])
       IN IF DistGreater(d, maxDist) THEN RdpMax(pts, i + 1, d, i)
          ELSE RdpMax(pts, i + 1, maxDist, maxIdx)

Returned(v) == [thrown |-> FALSE, value |-> v]
\* the call stack overflows: RangeError
StackOverflow == [thrown |-> TRUE, value |-> <<>>]

\* variant: the chord is kept whenever the farthest point is within epsilon
\* or is the first point
RECURSIVE rdpSimplify_Guarded(_, _)
rdpSimplify_Guarded(pts, epsilon) ==
  IF Len(pts) <= 2 THEN Returned(pts)
  ELSE LET m == RdpMax(pts, 1, [num |-> 0, den |-> 1], 0)
       IN IF DistAbove(m.maxDist, epsilon) /\ m.maxIdx # 0
          THEN LET left == rdpSimplify_Guarded(SubSeq(pts, 1, m.maxIdx + 1), epsilon)
                   right == rdpSimplify_Guarded(SubSeq(pts, m.maxIdx + 1, Len(pts)), epsilon)
               IN Returned(DropLast(left.value) \o right.value)
          ELSE Returned(<<pts[1], pts[Len(pts)]>>)

\* rdpSimplify(pts, epsilon).  With maxIdx = 0 the right-hand recursive call
\* is rdpSimplify(pts.slice(0), epsilon), the call being evaluated: the
\* recursion does not end and the engine throws a RangeError.
RECURSIVE rdpSimplify(_, _)
rdpSimplify(pts, epsilon) ==
  IF Len(pts) <= 2 THEN Returned(pts)
  ELSE LET m == RdpMax(pts, 1, [num |-> 0, den |-> 1], 0)
       IN IF DistAbove(m.maxDist, epsilon)
          THEN IF m.maxIdx = 0 THEN StackOverflow
               ELSE LET left == rdpSimplify(SubSeq(pts, 1, m.maxIdx + 1), epsilon)
                        right == rdpSimplify(SubSeq(pts, m.maxIdx + 1, Len(pts)), epsilon)
                    IN IF left.thrown \/ right.thrown THEN StackOverflow
                       ELSE Returned(DropLast(left.value) \o right.value)
          ELSE Returned(<<pts[1], pts[Len(pts)]>>)

\* simplifyClosedContour(pts, epsilon)
simplifyClosedContour(pts, epsilon) ==
  IF Len(pts) <= 3 \/ epsilon <= 0 THEN Returned(pts)
  ELSE LET simplified == rdpSimplify(Append(pts, pts[1]), epsilon)
       IN IF simplified.thrown THEN StackOverflow
          ELSE IF Len(simplified.value) < 4 THEN Returned(pts)
          ELSE IF Len(DropLast(simplified.value)) >= 3
               THEN Returned(DropLast(simplified.value))
               ELSE Returned(pts)

\* the points of the lists: two collinear triples among them
ContourPoints == {<<0, 0>>, <<1, 0>>, <<2, 0>>, <<2, 2>>, <<1, 1>>}
PointLists == UNION { [1..n -> ContourPoints] : n \in 0..MaxPts }
Epsilons == {-1, 0, 1}

RdpSimplifyCalls ==
  { [fn |-> "rdpSimplify", pts |-> p, epsilon |-> e] : p \in PointLists, e \in Epsilons }

SimplifyClosedContourCalls ==
  { [fn |-> "simplifyClosedContour", pts |-> p, epsilon |-> e] :
      p \in PointLists, e \in Epsilons }

ApplyRdpSimplify ==
  /\ fnCall.fn = "rdpSimplify"
  /\ ~fnResult.done
  /\ fnResult' = [done |-> TRUE, value |-> rdpSimplify(fnCall.pts, fnCall.epsilon)]
  /\ UNCHANGED <<fnCall, viewerVars, drawVars, timerVars, teardownVars>>

ApplySimplifyClosedContour ==
  /\ fnCall.fn = "simplifyClosedContour"
  /\ ~fnResult.done
  /\ fnResult' = [done |-> TRUE,
                  value |-> simplifyClosedContour(fnCall.pts, fnCall.epsilon)]
  /\ UNCHANGED <<fnCall, viewerVars, drawVars, timerVars, teardownVars>>

(***************************************************************************)
(* alpha-contour.ts: traceContour, the Moore-neighbour pipeline.  The      *)
(* scale, the normalized coordinates, the distances and epsilon are        *)
(* doubles.                                                                *)
(***************************************************************************)
WORK_SIZE == 200

DblHalf == DblDiv(DblOne, DblFromInt(2))

\* Math.min(1, WORK_SIZE / m), m being Math.max(srcW, srcH)
WorkScale(m) == DblMin(DblOne, DblDiv(DblFromInt(WORK_SIZE), DblFromInt(m)))

\* Math.max(1, Math.round(n * scale))
WorkSize(n, m) == Max(1, DblRoundInt(DblMul(DblFromInt(n), WorkScale(m))))

\* Math.min(srcN - 1, Math.floor(k / scale))
SourceIndexAt(k, srcN, scale) == Min(srcN - 1, DblFloor(DblDiv(DblFromInt(k), scale)))
SourceIndex(k, srcN, m) == SourceIndexAt(k, srcN, WorkScale(m))

\* alpha[i] > alphaThreshold; an index behind the buffer reads undefined
AlphaOver(alpha, i, threshold) ==
  i + 1 \in DOMAIN alpha /\ alpha[i + 1] > threshold

\* the binary grid of the working resolution, as a tuple of w * h cells
BinaryGridAt(alpha, srcW, srcH, w, h, threshold, scale) ==
  SubSeq([k \in 1..(w * h) |->
            IF AlphaOver(alpha,
                         SourceIndexAt((k - 1) \div w, srcH, scale) * srcW
                           + SourceIndexAt((k - 1) % w, srcW, scale),
                         threshold)
            THEN 1 ELSE 0],
         1, w * h)
BinaryGrid(alpha, srcW, srcH, w, h, threshold) ==
  BinaryGridAt(alpha, srcW, srcH, w, h, threshold, WorkScale(Max(srcW, srcH)))

\* raw.map(([x, y]) => [(x + 0.5) / w, (y + 0.5) / h])
Normalize(raw, w, h) ==
  SubSeq([i \in 1..Len(raw) |->
            <<DblDiv(DblAdd(DblFromInt(raw[i][1]), DblHalf), DblFromInt(w)),
              DblDiv(DblAdd(DblFromInt(raw[i][2]), DblHalf), DblFromInt(h))>>],
         1, Len(raw))

\* perpendicularDist(p, a, b) on doubles, dx and dy being b - a and lenSq
\* their dx * dx + dy * dy
PerpendicularOver(p, a, dx, dy, lenSq) ==
  IF IsZero(lenSq)
  THEN Hypotenuse(DblSub(p[1], a[1]), DblSub(p[2], a[2]))
  ELSE DblDiv(DblAbs(DblSub(DblMul(dx, DblSub(a[2], p[2])),
                            DblMul(dy, DblSub(a[1], p[1])))),
              DblSqrt(lenSq))
PerpendicularAlong(p, a, dx, dy) ==
  PerpendicularOver(p, a, dx, dy, DblAdd(DblMul(dx, dx), DblMul(dy, dy)))
perpendicularDistNumber(p, a, b) ==
  PerpendicularAlong(p, a, DblSub(b[1], a[1]), DblSub(b[2], a[2]))

\* the distances d that the for loop of rdpSimplify computes, for i = 1 on
RdpDistances(pts) ==
  SubSeq([i \in 1..(Len(pts) - 2) |->
            perpendicularDistNumber(pts[i + 1], pts[1], pts[Len(pts)])],
         1, Len(pts) - 2)

\* the for loop of rdpSimplify from index i on
RECURSIVE RdpMaxNumber(_, _, _, _)
RdpMaxNumber(dists, i, maxDist, maxIdx) ==
  IF i > Len(dists) THEN [maxDist |-> maxDist, maxIdx |-> maxIdx]
  ELSE IF DblGreater(dists[i], maxDist) THEN RdpMaxNumber(dists, i + 1, dists[i], i)
  ELSE RdpMaxNumber(dists, i + 1, maxDist, maxIdx)

\* left.slice(0, -1).concat(right), unless one of the two calls threw
RdpJoin(left, right) ==
  IF left.thrown \/ right.thrown THEN StackOverflow
  ELSE Returned(DropLast(left.value) \o right.value)

\* rdpSimplify(pts, epsilon) on doubles.  With maxIdx = 0 the right-hand
\* recursive call is rdpSimplify(pts.slice(0), epsilon), the call being
\* evaluated: the recursion does not end and the engine throws a RangeError.
RECURSIVE rdpSimplifyNumber(_, _)
RdpSplitNumber(pts, epsilon, m) ==
  IF DblGreater(m.maxDist, epsilon)
  THEN IF m.maxIdx = 0 THEN StackOverflow
       ELSE RdpJoin(rdpSimplifyNumber(SubSeq(pts, 1, m.maxIdx + 1), epsilon),
                    rdpSimplifyNumber(SubSeq(pts, m.maxIdx + 1, Len(pts)), epsilon))
  ELSE Returned(<<pts[1], pts[Len(pts)]>>)
rdpSimplifyNumber(pts, epsilon) ==
  IF Len(pts) <= 2 THEN Returned(pts)
  ELSE RdpSplitNumber(pts, epsilon, RdpMaxNumber(RdpDistances(pts), 1, DblZero, 0))

\* the stages of traceContour at the working resolution w x h
StagesFrom(raw, normalized, epsilon) ==
  [raw |-> raw, normalized |-> normalized,
   simplified |-> rdpSimplifyNumber(normalized, epsilon)]
StagesOf(raw, w, h, epsilon) == StagesFrom(raw, Normalize(raw, w, h), epsilon)
StagesAt(alpha, srcW, srcH, threshold, epsilon, w, h) ==
  StagesOf(mooreTrace(BinaryGrid(alpha, srcW, srcH, w, h, threshold), w, h), w, h, epsilon)
traceContourStages(alpha, srcW, srcH, threshold, epsilon) ==
  StagesAt(alpha, srcW, srcH, threshold, epsilon,
           WorkSize(srcW, Max(srcW, srcH)), WorkSize(srcH, Max(srcW, srcH)))

\* what traceContour returns after the stages s
traceContourOf(s) ==
  IF Len(s.raw) < 3 THEN Returned(<<>>)
  ELSE IF s.simplified.thrown THEN StackOverflow
  ELSE IF Len(s.simplified.value) >= 3 THEN s.simplified
  ELSE Returned(s.normalized)

traceContour(alpha, srcW, srcH, threshold, epsilon) ==
  IF srcW <= 0 \/ srcH <= 0 \/ Len(alpha) = 0 THEN Returned(<<>>)
  ELSE traceContourOf(traceContourStages(alpha, srcW, srcH, threshold, epsilon))

\* Sources: every alpha buffer of 0 and 255 for the sizes of at most
\* MaxSourcePixels pixels, widths of 3 and 5 among them, whose normalized
\* coordinates are no binary fractions; buffers for sizes that are not
\* positive; and two sources above the working resolution, for which
\* the rounded scale decides the size of the grid and the pixel a cell reads
MaxSourcePixels == 6
SourceSizes ==
  { q \in (-1..MaxSourcePixels) \X (0..MaxSourcePixels) : q[1] * q[2] <= MaxSourcePixels }
SourceAlphas(srcW, srcH) ==
  IF srcW <= 0 \/ srcH <= 0 THEN {<<>>, <<255>>}
  ELSE {<<>>} \cup [1..(srcW * srcH) -> {0, 255}]

\* the buffer of a srcW x srcH source whose pixels at the indices of
\* opaque are opaque
AlphaWith(srcW, srcH, opaque) ==
  SubSeq([i \in 1..(srcW * srcH) |-> IF i - 1 \in opaque THEN 255 ELSE 0], 1, srcW * srcH)

\* 1160 x 1: the cells 3, 4, 5 of the 200 x 1 grid read the pixels 17, 23, 28;
\* 1552 x 97: the grid is 200 x 12, its cells 0, 1, 2 read the pixels 0, 7, 15
LargeSources ==
  { [srcW |-> 1160, srcH |-> 1, alpha |-> AlphaWith(1160, 1, {17, 23, 28})],
    [srcW |-> 1552, srcH |-> 97, alpha |-> AlphaWith(1552, 97, {0, 7, 15})] }

\* sources of 5 x 2, 5 x 3 and 4 x 3 pixels with contour points on one line
\* whose computed distance to it is not 0
SlantedSources ==
  { [srcW |-> 5, srcH |-> 2, alpha |-> AlphaWith(5, 2, {3, 6, 7, 8})],
    [srcW |-> 5, srcH |-> 3, alpha |-> AlphaWith(5, 3, {4, 8, 12})],
    [srcW |-> 5, srcH |-> 3, alpha |-> AlphaWith(5, 3, {3, 4, 5, 6, 8, 10, 12})],
    [srcW |-> 5, srcH |-> 3,
     alpha |-> AlphaWith(5, 3, {0, 3, 4, 5, 7, 10, 11, 13, 14})],
    [srcW |-> 4, srcH |-> 3, alpha |-> AlphaWith(4, 3, {1, 2, 3, 5, 8})] }

\* epsilon: negative, 0, the default 0.003 and 1
DefaultEpsilon == DblDiv(DblFromInt(3), DblFromInt(1000))
TraceEpsilons == { DblFromInt(-1), DblZero, DefaultEpsilon, DblOne }

TraceContourCall(alpha, srcW, srcH, epsilon) ==
  [fn |-> "traceContour", alpha |-> alpha, srcW |-> srcW, srcH |-> srcH,
   alphaThreshold |-> alphaThreshold, epsilon |-> epsilon]

TraceContourCalls ==
  UNION { { TraceContourCall(a, q[1], q[2], e) :
              a \in SourceAlphas(q[1], q[2]), e \in TraceEpsilons } :
          q \in SourceSizes }
    \cup { TraceContourCall(s.alpha, s.srcW, s.srcH, e) :
             s \in SlantedSources, e \in TraceEpsilons }
    \cup { TraceContourCall(s.alpha, s.srcW, s.srcH, DefaultEpsilon) : s \in LargeSources }

ApplyTraceContour ==
  /\ fnCall.fn = "traceContour"
  /\ ~fnResult.done
  /\ fnResult' = [done |-> TRUE,
                  value |-> traceContour(fnCall.alpha, fnCall.srcW, fnCall.srcH,
                                         fnCall.alphaThreshold, fnCall.epsilon)]
  /\ UNCHANGED <<fnCall, viewerVars, drawVars, timerVars, teardownVars>>

InitTrace ==
  /\ cutoutMap = <<>>
  /\ queuedMap = <<>>
  /\ enabled = TRUE
  /\ hoveredId = Null
  /\ selectedId = Null
  /\ timerPending = FALSE
  /\ strategiesRef = <<>>
  /\ boundsMap = EmptyMap
  /\ queuedBounds = <<>>
  /\ effectPending = FALSE
  /\ builds = EmptyBag
  /\ lastEvent = "mount"
  /\ fnCall \in TraceContourCalls
  /\ fnResult = NoResult
  /\ DrawInit
  /\ TimerInit
  /\ TeardownInit

NextTrace == ApplyTraceContour

SpecTrace == InitTrace /\ [][NextTrace]_vars

ContourCalls ==
  MooreTraceCalls \cup RdpSimplifyCalls \cup SimplifyClosedContourCalls

InitContour ==
  /\ cutoutMap = <<>>
  /\ queuedMap = <<>>
  /\ enabled = TRUE
  /\ hoveredId = Null
  /\ selectedId = Null
  /\ timerPending = FALSE
  /\ strategiesRef = <<>>
  /\ boundsMap = EmptyMap
  /\ queuedBounds = <<>>
  /\ effectPending = FALSE
  /\ builds = EmptyBag
  /\ lastEvent = "mount"
  /\ fnCall \in ContourCalls
  /\ fnResult = NoResult
  /\ DrawInit
  /\ TimerInit
  /\ TeardownInit

NextContour ==
  \/ ApplyMooreTrace
  \/ ApplyRdpSimplify
  \/ ApplySimplifyClosedContour

SpecContour == InitContour /\ [][NextContour]_vars

\* the cells of the grid in scan order that are opaque
OpaqueCells(grid, w, h) ==
  { c \in (0..(w - 1)) \X (0..(h - 1)) : grid[c[2] * w + c[1] + 1] = 1 }

ScanBefore(a, b) == a[2] < b[2] \/ (a[2] = b[2] /\ a[1] < b[1])

EightNeighbours(a, b) ==
  a # b /\ Abs(a[1] - b[1]) <= 1 /\ Abs(a[2] - b[2]) <= 1

\* C25: mooreTrace returns on every binary w x h grid; its walk ends at the
\* start cell, at a cell without opaque neighbour or at the cap of 4*w*h
\* steps (or there is no opaque cell at all); the contour has at most
\* 4*w*h + 1 points, each an opaque cell of the grid, the first the first
\* opaque cell in scan order, consecutive ones 8-neighbours.
C25_MooreTraceBounded ==
  (fnCall.fn = "mooreTrace" /\ fnResult.done) =>
    LET c == fnResult.value
        w == fnCall.w
        h == fnCall.h
        cells == OpaqueCells(fnCall.grid, w, h)
    IN /\ fnResult.end \in {"start", "isolated", "cap", "empty"}
       /\ fnResult.end = "empty" <=> cells = {}
       /\ fnResult.end = "cap" => Len(c) = 4 * w * h + 1
       /\ fnResult.end = "isolated" =>
            \A n \in cells : ~EightNeighbours(c[Len(c)], n)
       /\ fnResult.end = "start" =>
            (Len(c) > 1 /\ EightNeighbours(c[Len(c)], c[1]))
       /\ Len(c) <= 4 * w * h + 1
       /\ \A i \in 1..Len(c) : c[i] \in cells
       /\ (c = <<>>) <=> (cells = {})
       /\ c # <<>> => \A n \in cells : ~ScanBefore(n, c[1])
       /\ \A i \in 1..(Len(c) - 1) : EightNeighbours(c[i], c[i + 1])

\* a contour that goes round a hole and comes back to the start cell
C25_Witness ==
  /\ fnCall.fn = "mooreTrace"
  /\ fnResult.done
  /\ fnCall.w = 3 /\ fnCall.h = 3
  /\ fnCall.grid = <<1, 1, 1, 1, 0, 1, 1, 1, 1>>
  /\ fnResult.end = "start"
  /\ Len(fnResult.value) = 8


\* q can be had from p by deleting entries
RECURSIVE IsSubsequence(_, _)
IsSubsequence(q, p) ==
  IF q = <<>> THEN TRUE
  ELSE IF p = <<>> THEN FALSE
  ELSE IF q[1] = p[1] THEN IsSubsequence(Tail(q), Tail(p))
  ELSE IsSubsequence(q, Tail(p))

KeepsEnds(q, p) ==
  p # <<>> => (q # <<>> /\ q[1] = p[1] /\ q[Len(q)] = p[Len(p)])

\* C26: rdpSimplify and simplifyClosedContour return for every point list
\* and epsilon; applied to their own result with the same epsilon they
\* return that result again; and the result is a subsequence of the list
\* that keeps its first and its last point.
C26_SimplifyIdempotent ==
  /\ (fnCall.fn = "rdpSimplify" /\ fnResult.done) =>
       /\ ~fnResult.value.thrown
       /\ rdpSimplify(fnResult.value.value, fnCall.epsilon) = fnResult.value
       /\ IsSubsequence(fnResult.value.value, fnCall.pts)
       /\ KeepsEnds(fnResult.value.value, fnCall.pts)
  /\ (fnCall.fn = "simplifyClosedContour" /\ fnResult.done) =>
       /\ ~fnResult.value.thrown
       /\ simplifyClosedContour(fnResult.value.value, fnCall.epsilon) = fnResult.value
       /\ IsSubsequence(fnResult.value.value, fnCall.pts)
       /\ KeepsEnds(fnResult.value.value, fnCall.pts)


\* C27: traceContour returns, and returns no point or at least 3: no point
\* when a source dimension is not positive, the alpha buffer is empty or
\* the trace has fewer than 3 points, and the unsimplified contour when the
\* simplification leaves fewer than 3 vertices.
C27_TraceContourTotal ==
  (fnCall.fn = "traceContour" /\ fnResult.done) =>
    LET r == fnResult.value
        s == traceContourStages(fnCall.alpha, fnCall.srcW, fnCall.srcH,
                                fnCall.alphaThreshold, fnCall.epsilon)
    IN /\ ~r.thrown
       /\ Len(r.value) = 0 \/ Len(r.value) >= 3
       /\ (fnCall.srcW <= 0 \/ fnCall.srcH <= 0 \/ Len(fnCall.alpha) = 0) =>
            r.value = <<>>
       /\ (fnCall.srcW > 0 /\ fnCall.srcH > 0 /\ Len(fnCall.alpha) > 0) =>
            /\ Len(s.raw) < 3 => r.value = <<>>
            /\ (Len(s.raw) >= 3 /\ ~s.simplified.thrown
                  /\ Len(s.simplified.value) < 3) => r.value = s.normalized
            /\ (Len(s.raw) >= 3 /\ ~s.simplified.thrown
                  /\ Len(s.simplified.value) >= 3) => r.value = s.simplified.value


\* C28: hitTest is false at every point for the polygon without points,
\* for a circle whose radius is zero or negative, and for an image whose
\* width or height is not positive.
C28_DegenerateNeverHits ==
  /\ (fnCall.fn = "hitTest" /\ fnResult.done
        /\ fnCall.strategy \in DegenerateGridStrategies) => fnResult.value = FALSE
  /\ (fnCall.fn = "hitTestCircle" /\ fnResult.done
        /\ fnCall.strategy \in DegenerateCircleStrategies) => fnResult.value = FALSE

\* the centre of a circle of negative radius was tested
C28_Witness ==
  /\ fnCall.fn = "hitTestCircle"
  /\ fnResult.done
  /\ fnCall.strategy \in DegenerateCircleStrategies
  /\ FLess(fnCall.strategy.rx, Zero)
  /\ fnCall.at = <<fnCall.strategy.cx, fnCall.strategy.cy>>
  /\ fnResult.value = FALSE


(***************************************************************************)
(* The raster strategy in JavaScript number arithmetic: the divisions of   *)
(* computeBoundsFromAlpha, the sums of the bounds check and the product    *)
(* nx * width round.  Normalized values are doubles, pixel counts are      *)
(* whole numbers.                                                          *)
(***************************************************************************)
RasterWidth == 11

\* { x: 0, y: 0, w: 1, h: 1 }
FullBoundsNumber == [x |-> Zero, y |-> Zero, w |-> One, h |-> One]

\* computeBoundsFromAlpha with its four divisions rounded
computeBoundsFromAlphaNumber(alpha, w, h, threshold) ==
  IF w <= 0 \/ h <= 0 THEN FullBoundsNumber
  ELSE LET r == ScanAlpha(alpha, w, h, threshold, 0,
                  [minX |-> w, minY |-> h, maxX |-> 0, maxY |-> 0, found |-> FALSE])
       IN IF ~r.found THEN FullBoundsNumber
          ELSE [x |-> FDiv(FromInt(r.minX), FromInt(w)),
                y |-> FDiv(FromInt(r.minY), FromInt(h)),
                w |-> FDiv(FromInt(r.maxX - r.minX + 1), FromInt(w)),
                h |-> FDiv(FromInt(r.maxY - r.minY + 1), FromInt(h))]

\* the image strategy as prepare() leaves it for a decoded w x h buffer
PreparedRaster(alpha, w, h, threshold) ==
  [BlankStrategy("a", "image") EXCEPT
     !.threshold = threshold, !.alpha = alpha, !.width = w, !.height = h,
     !.bounds = computeBoundsFromAlphaNumber(alpha, w, h, threshold)]

\* nx < b.x || nx > b.x + b.w || ny < b.y || ny > b.y + b.h
OutsideBoundsNumber(b, nx, ny) ==
  \/ FLess(nx, b.x) \/ FLess(FAdd(b.x, b.w), nx)
  \/ FLess(ny, b.y) \/ FLess(FAdd(b.y, b.h), ny)

\* Math.min(size - 1, Math.max(0, Math.floor(n * size)))
PixelIndex(n, size) == Min(size - 1, Max(0, FFloor(FMul(n, FromInt(size)))))

\* ImageHitTestStrategy.hitTest
ImageHitTestNumber(s, nx, ny) ==
  IF Len(s.alpha) = 0 THEN FALSE
  ELSE IF OutsideBoundsNumber(s.bounds, nx, ny) THEN FALSE
  ELSE AlphaAbove(s.alpha,
                  PixelIndex(ny, s.height) * s.width + PixelIndex(nx, s.width),
                  s.threshold)

\* one-row images with a single opaque pixel
RasterStrategies ==
  { PreparedRaster(OnePixel(RasterWidth, 1, j), RasterWidth, 1, clampThreshold) :
      j \in 1..RasterWidth }

\* the doubles nearest to the pixel edges j / RasterWidth and their
\* neighbours within [0, 1]
RasterXs ==
  { FNearest(j, RasterWidth) : j \in 0..RasterWidth }
    \cup { FBelow(FNearest(j, RasterWidth)) : j \in 1..RasterWidth }
    \cup { FAbove(FNearest(j, RasterWidth)) : j \in 1..(RasterWidth - 1) }
RasterYs == { Zero, FNearest(1, 2), One }

RasterHitTestCalls ==
  { [fn |-> "rasterHitTest", strategy |-> s, nx |-> q[1], ny |-> q[2]] :
      s \in RasterStrategies, q \in RasterXs \X RasterYs }

ApplyRasterHitTest ==
  /\ fnCall.fn = "rasterHitTest"
  /\ ~fnResult.done
  /\ fnResult' = [done |-> TRUE,
                  value |-> ImageHitTestNumber(fnCall.strategy, fnCall.nx, fnCall.ny)]
  /\ UNCHANGED <<fnCall, viewerVars, drawVars, timerVars, teardownVars>>

InitRaster ==
  /\ cutoutMap = <<>>
  /\ queuedMap = <<>>
  /\ enabled = TRUE
  /\ hoveredId = Null
  /\ selectedId = Null
  /\ timerPending = FALSE
  /\ strategiesRef = <<>>
  /\ boundsMap = EmptyMap
  /\ queuedBounds = <<>>
  /\ effectPending = FALSE
  /\ builds = EmptyBag
  /\ lastEvent = "mount"
  /\ fnCall \in RasterHitTestCalls
  /\ fnResult = NoResult
  /\ DrawInit
  /\ TimerInit
  /\ TeardownInit

NextRaster ==
  \/ ApplyRasterHitTest

SpecRaster == InitRaster /\ [][NextRaster]_vars

\* C29: for a raster strategy whose bounds come from its own alpha buffer
\* and threshold, hitTest(nx, ny) at a point of the unit square is true
\* exactly when the pixel (min(w-1, floor(nx*w)), min(h-1, floor(ny*h)))
\* has an alpha above the threshold: the bounds check rejects no opaque
\* pixel.
C29_PreCheckExact ==
  (fnCall.fn = "rasterHitTest" /\ fnResult.done) =>
    LET s == fnCall.strategy
        px == Min(s.width - 1, FFloor(FMul(fnCall.nx, FromInt(s.width))))
        py == Min(s.height - 1, FFloor(FMul(fnCall.ny, FromInt(s.height))))
    IN fnResult.value <=> (s.alpha[py * s.width + px + 1] > s.threshold)


(***************************************************************************)
(* The drawing hook on a container that may not be laid out                *)
(***************************************************************************)
\* clicks on two spots of the laid-out container, and clicks dispatched on
\* the container while it has no box (clientX = clientY = 0, and clientX = 5)
LayoutEvents ==
  { DrawEventAt(26, 10), DrawEventAt(29, 10),
    [clientX |-> 0, clientY |-> 0, rect |-> ZeroRect],
    [clientX |-> 5, clientY |-> 0, rect |-> ZeroRect] }

\* pointer moves over the laid-out container and over the one without box
LayoutMoves ==
  { DrawEventAt(29, 10), [clientX |-> 0, clientY |-> 0, rect |-> ZeroRect] }

NextDrawLayout ==
  \/ (\E e \in LayoutEvents : DrawClick(e)) /\ UNCHANGED <<viewerVars, fnVars, timerVars, teardownVars>>
  \/ (\E e \in LayoutEvents : DrawSecondClick(e)) /\ UNCHANGED <<viewerVars, fnVars, timerVars, teardownVars>>
  \/ DrawDoubleClick /\ UNCHANGED <<viewerVars, fnVars, timerVars, teardownVars>>
  \/ DrawContextMenu /\ UNCHANGED <<viewerVars, fnVars, timerVars, teardownVars>>
  \/ (\E e \in LayoutMoves : DrawPointerMove(e)) /\ UNCHANGED <<viewerVars, fnVars, timerVars, teardownVars>>
  \/ DrawPointerLeave /\ UNCHANGED <<viewerVars, fnVars, timerVars, teardownVars>>
  \/ reset /\ UNCHANGED <<viewerVars, fnVars, timerVars, teardownVars>>

SpecDrawLayout == InitDraw /\ [][NextDrawLayout]_vars

\* x is a number of [0, 1]
InUnitInterval(x) == x.c = "finite" /\ ~DblLess(x, DblZero) /\ ~DblGreater(x, DblOne)

\* C30: whatever the clicks, double-clicks, right-clicks and resets, each
\* call of onComplete gets at least minPoints vertices, each with both
\* coordinates in [0,1], and the list of vertices in progress is empty
\* right after the call.
C30_CompleteIsWellFormed ==
  [][\A n \in 1..Len(completions') :
       /\ Len(completions'[n]) >= minPoints
       /\ \A i \in 1..Len(completions'[n]) :
            /\ InUnitInterval(completions'[n][i][1])
            /\ InUnitInterval(completions'[n][i][2])
       /\ drawPoints' = <<>>]_vars

====
